---- MODULE Spec2Model ----
(***************************************************************************)
(* Password hashing of luxcarpets-go (package service): validatePassword,  *)
(* generateFromPassword / hashPassword, comparePasswordAndHash and         *)
(* decodeHash, with the library routines they rest on (strings.Split,      *)
(* fmt.Sprintf / fmt.Sscanf of %d, base64.RawStdEncoding, argon2.IDKey,    *)
(* subtle.ConstantTimeCompare, crypto/rand).                               *)
(*                                                                         *)
(* Representation.  A password is a sequence of runes (Unicode code        *)
(* points); its Go string is the UTF-8 encoding of that sequence.  An      *)
(* encoded hash is a sequence of one-character strings.  A byte is a       *)
(* number in 0..255.  A uint32 is a pair <<hi, lo>> of 16-bit halves       *)
(* (TLC's integers are 32-bit signed), a uint8 a number in 0..255, an      *)
(* int a sign and a decimal magnitude.                                     *)
(***************************************************************************)
EXTENDS Integers, Sequences, FiniteSets, TLC

VARIABLES
  defaultParams,  \* the package-level *params every hashPassword call reads
  randReads,      \* what crypto/rand has returned so far, one entry per read
  hashes,         \* the successful hashPassword calls so far
  call,           \* the last call: function, arguments, result
  procs,          \* the calls in progress, one per goroutine, with their locals
  users,          \* the rows of the table users, in the order of their insertion
  clock           \* the database's NOW()

vars == <<defaultParams, randReads, hashes, call, procs, users, clock>>

Nil == "nil"

\* ------------------------------------------------------------------------
\* Runes and UTF-8
\* ------------------------------------------------------------------------

\* len() of the UTF-8 encoding of one rune
RuneLen(r) == IF r < 128 THEN 1 ELSE IF r < 2048 THEN 2 ELSE IF r < 65536 THEN 3 ELSE 4

\* the UTF-8 bytes of one rune
RuneBytes(r) ==
  IF r < 128 THEN <<r>>
  ELSE IF r < 2048 THEN <<192 + (r \div 64), 128 + (r % 64)>>
  ELSE IF r < 65536 THEN <<224 + (r \div 4096), 128 + ((r \div 64) % 64), 128 + (r % 64)>>
  ELSE <<240 + (r \div 262144), 128 + ((r \div 4096) % 64),
         128 + ((r \div 64) % 64), 128 + (r % 64)>>

RECURSIVE BytesOf(_, _, _)
\* the UTF-8 bytes of runes[lo..hi], by halves
BytesOf(runes, lo, hi) ==
  IF lo > hi THEN <<>>
  ELSE IF lo = hi THEN RuneBytes(runes[lo])
  ELSE LET mid == (lo + hi) \div 2
       IN BytesOf(runes, lo, mid) \o BytesOf(runes, mid + 1, hi)

\* []byte(password)
StringBytes(runes) == BytesOf(runes, 1, Len(runes))

RECURSIVE ByteLenOf(_, _, _)
ByteLenOf(runes, lo, hi) ==
  IF lo > hi THEN 0
  ELSE IF lo = hi THEN RuneLen(runes[lo])
  ELSE LET mid == (lo + hi) \div 2
       IN ByteLenOf(runes, lo, mid) + ByteLenOf(runes, mid + 1, hi)

\* len(password): Go's len of a string counts bytes
ByteLen(runes) == ByteLenOf(runes, 1, Len(runes))

\* unicode.IsUpper / IsLower / IsDigit / IsPunct / IsSymbol on the Basic Latin,
\* Cyrillic (U+0410..U+044F), Arabic-Indic digit, currency and CJK ranges
IsUpper(r) == r \in (65..90) \cup (1040..1071)
IsLower(r) == r \in (97..122) \cup (1072..1103)
IsDigit(r) == r \in (48..57) \cup (1632..1641)
IsPunct(r) == r \in {33, 34, 35, 37, 38, 39, 40, 41, 42, 44, 45, 46, 47, 58, 59,
                     63, 64, 91, 92, 93, 95, 123, 125}
IsSymbol(r) == r \in {36, 43, 60, 61, 62, 94, 96, 124, 126, 8364}

\* ------------------------------------------------------------------------
\* validatePassword
\* ------------------------------------------------------------------------

maxPasswordLength == 72
minPasswordLength == 8

\* An error is the chain of its messages, outermost first: errors.New(m) is
\* <<m>>, fmt.Errorf("m: %w", err) is <<m>> \o err, and nil is the empty chain
NoError == <<>>
Wrap(msg, err) == <<msg>> \o err
\* errors.Is(err, target) for a target made by errors.New
ErrorIs(err, target) == \E i \in 1..Len(err) : <<err[i]>> = target

ErrPasswordTooLong == <<"password too long">>
ErrPasswordTooShort == <<"password too short">>
ErrPasswordNoUpper == <<"password must contain at least one uppercase letter">>
ErrPasswordNoLower == <<"password must contain at least one lowercase letter">>
ErrPasswordNoDigit == <<"password must contain at least one digit">>
ErrPasswordNoSpecial == <<"password must contain at least one special character">>

\* the four flags after the loop over the runes: the switch takes the first
\* case that matches, so a rune sets the flag of the first class it is in
classify(password) ==
  LET n == Len(password) IN
  [hasUpper |-> \E i \in 1..n : IsUpper(password[i]),
   hasLower |-> \E i \in 1..n : ~IsUpper(password[i]) /\ IsLower(password[i]),
   hasDigit |-> \E i \in 1..n : ~IsUpper(password[i]) /\ ~IsLower(password[i])
                                   /\ IsDigit(password[i]),
   hasSpecial |-> \E i \in 1..n : ~IsUpper(password[i]) /\ ~IsLower(password[i])
                                     /\ ~IsDigit(password[i])
                                     /\ (IsPunct(password[i]) \/ IsSymbol(password[i]))]

\* validateChecks with the lowercase check ahead of the uppercase check
validateChecks_LowerFirst(length, f) ==
  IF length > maxPasswordLength THEN ErrPasswordTooLong
  ELSE IF length < minPasswordLength THEN ErrPasswordTooShort
  ELSE IF ~f.hasLower THEN ErrPasswordNoLower
  ELSE IF ~f.hasUpper THEN ErrPasswordNoUpper
  ELSE IF ~f.hasDigit THEN ErrPasswordNoDigit
  ELSE IF ~f.hasSpecial THEN ErrPasswordNoSpecial
  ELSE NoError

\* lines 93-133 on len(password) and the flags
validateChecks(length, f) ==
  IF length > maxPasswordLength THEN ErrPasswordTooLong
  ELSE IF length < minPasswordLength THEN ErrPasswordTooShort
  ELSE IF ~f.hasUpper THEN ErrPasswordNoUpper
  ELSE IF ~f.hasLower THEN ErrPasswordNoLower
  ELSE IF ~f.hasDigit THEN ErrPasswordNoDigit
  ELSE IF ~f.hasSpecial THEN ErrPasswordNoSpecial
  ELSE NoError

validatePassword(password) == validateChecks(ByteLen(password), classify(password))

\* ------------------------------------------------------------------------
\* Text: strings.Split, fmt.Sprintf("%d"), fmt.Sscanf("%d")
\* ------------------------------------------------------------------------

\* strings.Split(s, sep) for a one-character sep: n separators give n+1
\* fields, the k-th field being what stands between separators k-1 and k
Split(s, sep) ==
  LET at == {i \in 1..Len(s) : s[i] = sep}
      n == Cardinality(at)
      pos(k) == IF k = 0 THEN 0
                ELSE IF k = n + 1 THEN Len(s) + 1
                ELSE CHOOSE i \in at : Cardinality({j \in at : j < i}) = k - 1
  IN [k \in 1..(n + 1) |-> SubSeq(s, pos(k - 1) + 1, pos(k) - 1)]

DigitChars == <<"0", "1", "2", "3", "4", "5", "6", "7", "8", "9">>
IsDigitChar(c) == \E d \in 1..10 : DigitChars[d] = c
DigitVal(c) == (CHOOSE d \in 1..10 : DigitChars[d] = c) - 1

RECURSIVE FormatNat(_)
\* Sprintf("%d", n) of a small non-negative number (uint8, argon2.Version)
FormatNat(n) ==
  IF n < 10 THEN <<DigitChars[n + 1]>>
  ELSE Append(FormatNat(n \div 10), DigitChars[(n % 10) + 1])

RECURSIVE FormatUint32(_)
\* Sprintf("%d", u) of a uint32 <<hi, lo>>: long division by 10
FormatUint32(u) ==
  LET qhi == u[1] \div 10
      mid == (u[1] % 10) * 65536 + u[2]
      q   == <<qhi, mid \div 10>>
      d   == mid % 10
  IN IF q = <<0, 0>> THEN <<DigitChars[d + 1]>>
     ELSE Append(FormatUint32(q), DigitChars[d + 1])

U32(n) == <<n \div 65536, n % 65536>>
U32Zero == <<0, 0>>

\* fmt's isSpace on the characters a string of the model can hold
IsSpace(c) == c \in {" ", "\t", "\n", "\r", "\f"}

RECURSIVE SkipSpace(_, _)
\* (*ss).SkipSpace with nlIsSpace = false (Sscanf): blanks are skipped, a newline
\* is an error; the position after the blanks
SkipSpace(s, i) ==
  IF i > Len(s) THEN [pos |-> i, err |-> Nil]
  ELSE IF s[i] = "\r" /\ i + 1 <= Len(s) /\ s[i + 1] = "\n" THEN SkipSpace(s, i + 1)
  ELSE IF s[i] = "\n" THEN [pos |-> i + 1, err |-> "unexpected newline"]
  ELSE IF IsSpace(s[i]) THEN SkipSpace(s, i + 1)
  ELSE [pos |-> i, err |-> Nil]

RECURSIVE DigitsEnd(_, _)
\* the position after the run of decimal digits that starts at i
DigitsEnd(s, i) ==
  IF i <= Len(s) /\ IsDigitChar(s[i]) THEN DigitsEnd(s, i + 1) ELSE i

RECURSIVE StripZeros(_)
\* a digit string without its leading zeros ("0" for zero)
StripZeros(tok) ==
  IF Len(tok) > 1 /\ Head(tok) = "0" THEN StripZeros(Tail(tok)) ELSE tok

RECURSIVE DigitsLE(_, _)
DigitsLE(a, b) ==
  IF a = <<>> THEN TRUE
  ELSE IF DigitVal(Head(a)) # DigitVal(Head(b)) THEN DigitVal(Head(a)) < DigitVal(Head(b))
  ELSE DigitsLE(Tail(a), Tail(b))

\* a <= b for two digit strings without leading zeros
NumeralLE(a, b) == Len(a) < Len(b) \/ (Len(a) = Len(b) /\ DigitsLE(a, b))

MaxInt64Digits ==
  <<"9","2","2","3","3","7","2","0","3","6","8","5","4","7","7","5","8","0","7">>
MinInt64Digits ==
  <<"9","2","2","3","3","7","2","0","3","6","8","5","4","7","7","5","8","0","8">>

RECURSIVE AccUint32(_, _)
\* strconv.ParseUint and scanUint's width check for 32 bits, digit by digit:
\* not ok as soon as the value passes 2^32 - 1
AccUint32(tok, acc) ==
  IF tok = <<>> THEN [ok |-> TRUE, v |-> acc]
  ELSE LET lo == acc[2] * 10 + DigitVal(Head(tok))
           hi == acc[1] * 10 + (lo \div 65536)
       IN IF hi >= 65536 THEN [ok |-> FALSE, v |-> U32Zero]
          ELSE AccUint32(Tail(tok), <<hi, lo % 65536>>)

RECURSIVE AccUint8(_, _)
\* the same for 8 bits
AccUint8(tok, acc) ==
  IF tok = <<>> THEN [ok |-> TRUE, v |-> acc]
  ELSE LET v == acc * 10 + DigitVal(Head(tok))
       IN IF v > 255 THEN [ok |-> FALSE, v |-> 0] ELSE AccUint8(Tail(tok), v)

\* strconv.ParseInt of a sign and a magnitude without leading zeros, and
\* scanInt's result: val is [neg, mag]
parseInt(neg, mag, to) ==
  IF ~NumeralLE(mag, IF neg THEN MinInt64Digits ELSE MaxInt64Digits)
    THEN [err |-> "value out of range", pos |-> to, val |-> Nil]
  ELSE [err |-> Nil, pos |-> to, val |-> [neg |-> neg /\ mag # <<"0">>, mag |-> mag]]

\* (*ss).scanNumber on s[from..to-1], the digits after the sign
scanNumber(s, neg, from, to) ==
  IF from > Len(s) THEN [err |-> "EOF", pos |-> from, val |-> Nil]
  ELSE IF to = from THEN [err |-> "expected integer", pos |-> from, val |-> Nil]
  ELSE parseInt(neg, StripZeros(SubSeq(s, from, to - 1)), to)

scanIntAt(s, sk) ==
  IF sk.err # Nil THEN [err |-> sk.err, pos |-> sk.pos, val |-> Nil]
  ELSE IF sk.pos > Len(s) THEN [err |-> "EOF", pos |-> sk.pos, val |-> Nil]
  ELSE scanNumber(s, s[sk.pos] = "-",
                  IF s[sk.pos] \in {"+", "-"} THEN sk.pos + 1 ELSE sk.pos,
                  DigitsEnd(s, IF s[sk.pos] \in {"+", "-"} THEN sk.pos + 1 ELSE sk.pos))

\* (*ss).scanInt('d', 64) at position i: blanks, an optional sign, digits,
\* strconv.ParseInt
scanInt(s, i) == scanIntAt(s, SkipSpace(s, i))

\* strconv.ParseUint and the width check, as scanUint's result
parseUint(a, to) ==
  IF ~a.ok THEN [err |-> "unsigned integer overflow", pos |-> to, val |-> Nil]
  ELSE [err |-> Nil, pos |-> to, val |-> a.v]

scanUintDigits(s, from, to, bits) ==
  IF to = from THEN [err |-> "expected integer", pos |-> from, val |-> Nil]
  ELSE parseUint(IF bits = 32 THEN AccUint32(SubSeq(s, from, to - 1), U32Zero)
                 ELSE AccUint8(SubSeq(s, from, to - 1), 0), to)

scanUintAt(s, sk, bits) ==
  IF sk.err # Nil THEN [err |-> sk.err, pos |-> sk.pos, val |-> Nil]
  ELSE IF sk.pos > Len(s) THEN [err |-> "EOF", pos |-> sk.pos, val |-> Nil]
  ELSE scanUintDigits(s, sk.pos, DigitsEnd(s, sk.pos), bits)

\* (*ss).scanUint('d', bits) at position i: blanks, digits (no sign),
\* strconv.ParseUint, then the width check
scanUint(s, i, bits) == scanUintAt(s, SkipSpace(s, i), bits)

\* a format is a sequence of items: a one-character string is a literal,
\* "%int", "%uint32" and "%uint8" are the verb %d with the operand's type
IsVerb(item) == item \in {"%int", "%uint32", "%uint8"}

\* (*ss).scanOne for the verb %d
scanOne(s, i, verb) ==
  IF verb = "%int" THEN scanInt(s, i)
  ELSE scanUint(s, i, IF verb = "%uint32" THEN 32 ELSE 8)

RECURSIVE doScanf(_, _, _, _, _)

\* after one operand: stop at its error, else go on behind it
scanned(s, format, k, vals, r) ==
  IF r.err # Nil THEN [err |-> r.err, vals |-> vals]
  ELSE doScanf(s, r.pos, format, k + 1, Append(vals, r.val))

\* (*ss).doScanf: literals must match the input rune for rune (advance), each
\* verb scans one operand; input left over after the last item is ignored
doScanf(s, i, format, k, vals) ==
  IF k > Len(format) THEN [err |-> Nil, vals |-> vals]
  ELSE IF IsVerb(format[k]) THEN scanned(s, format, k, vals, scanOne(s, i, format[k]))
  ELSE IF i > Len(s) THEN [err |-> "unexpected EOF", vals |-> vals]
  ELSE IF s[i] # format[k] THEN [err |-> "input does not match format", vals |-> vals]
  ELSE doScanf(s, i + 1, format, k + 1, vals)

\* fmt.Sscanf(str, format, ...)
Sscanf(str, format) == doScanf(str, 1, format, 1, <<>>)

\* ------------------------------------------------------------------------
\* base64.RawStdEncoding
\* ------------------------------------------------------------------------

B64Alphabet ==
  <<"A","B","C","D","E","F","G","H","I","J","K","L","M","N","O","P",
    "Q","R","S","T","U","V","W","X","Y","Z","a","b","c","d","e","f",
    "g","h","i","j","k","l","m","n","o","p","q","r","s","t","u","v",
    "w","x","y","z","0","1","2","3","4","5","6","7","8","9","+","/">>

RECURSIVE B64IndexUpTo(_)
B64IndexUpTo(n) ==
  IF n = 0 THEN <<>> ELSE B64IndexUpTo(n - 1) @@ (B64Alphabet[n] :> (n - 1))

\* the 6-bit value of each character of the alphabet
B64Index == B64IndexUpTo(64)
B64Chars == DOMAIN B64Index

RECURSIVE EncodeToString(_)
\* base64.RawStdEncoding.EncodeToString: 3 bytes give 4 characters, a last
\* group of 1 or 2 bytes gives 2 or 3, and no padding is written
EncodeToString(src) ==
  IF src = <<>> THEN <<>>
  ELSE IF Len(src) = 1
    THEN <<B64Alphabet[(src[1] \div 4) + 1], B64Alphabet[((src[1] % 4) * 16) + 1]>>
  ELSE IF Len(src) = 2
    THEN <<B64Alphabet[(src[1] \div 4) + 1],
           B64Alphabet[((src[1] % 4) * 16 + (src[2] \div 16)) + 1],
           B64Alphabet[((src[2] % 16) * 4) + 1]>>
  ELSE <<B64Alphabet[(src[1] \div 4) + 1],
         B64Alphabet[((src[1] % 4) * 16 + (src[2] \div 16)) + 1],
         B64Alphabet[((src[2] % 16) * 4 + (src[3] \div 64)) + 1],
         B64Alphabet[(src[3] % 64) + 1]>> \o EncodeToString(SubSeq(src, 4, Len(src)))

\* the bytes of a string of 6-bit values whose length is not 1 mod 4: every 4
\* values give 3 bytes, a last group of 2 or 3 values gives 1 or 2 bytes, and
\* Strict() rejects a last group whose unused low bits are not zero
DecodeQuanta(v) ==
  LET n == Len(v)
      tail == n % 4
      count == 3 * (n \div 4) + (IF tail = 0 THEN 0 ELSE tail - 1)
      last == IF tail = 0 THEN 0 ELSE v[n]
      loose == (tail = 2 /\ last % 16 # 0) \/ (tail = 3 /\ last % 4 # 0)
      byte(k) == LET g == 4 * ((k - 1) \div 3)
                     part == (k - 1) % 3
                 IN IF part = 0 THEN v[g + 1] * 4 + (v[g + 2] \div 16)
                    ELSE IF part = 1 THEN (v[g + 2] % 16) * 16 + (v[g + 3] \div 4)
                    ELSE (v[g + 3] % 4) * 64 + v[g + 4]
  IN IF loose THEN [err |-> "CorruptInputError", bytes |-> <<>>]
     ELSE [err |-> Nil, bytes |-> [k \in 1..count |-> byte(k)]]

\* base64.RawStdEncoding.Strict().DecodeString: \r and \n are skipped wherever
\* they stand, every other character must be of the alphabet ('=' is not: the
\* encoding has no padding), and a single leftover character is corrupt
DecodeString(s) ==
  LET t == SelectSeq(s, LAMBDA c : c \notin {"\r", "\n"}) IN
  IF \E i \in 1..Len(t) : t[i] \notin B64Chars
    THEN [err |-> "CorruptInputError", bytes |-> <<>>]
  ELSE IF Len(t) % 4 = 1 THEN [err |-> "CorruptInputError", bytes |-> <<>>]
  ELSE DecodeQuanta([i \in 1..Len(t) |-> B64Index[t[i]]])

\* ------------------------------------------------------------------------
\* argon2.IDKey and subtle.ConstantTimeCompare
\* ------------------------------------------------------------------------

\* argon2.Version
Version == 19

DigestModulus == 8388593

RECURSIVE Absorb(_, _)
\* one pass over a byte string, folding each byte into the running digest
Absorb(h, bytes) ==
  IF bytes = <<>> THEN h
  ELSE Absorb((h * 251 + Head(bytes) + 1) % DigestModulus, Tail(bytes))

\* argon2.IDKey(password, salt, time, memory, threads, keyLen): a deterministic
\* function of all six arguments that returns keyLen bytes.  The library's
\* memory-hard function is stood for by a keyed digest of the arguments,
\* spread over the bytes of the key
IDKey(password, salt, time, memory, threads, keyLen) ==
  LET h0 == Absorb(Len(password) + 1, password)
      h1 == Absorb((h0 * 251 + Len(salt) + 1) % DigestModulus, salt)
      h2 == Absorb(h1, <<time[1] \div 256, time[1] % 256, time[2] \div 256, time[2] % 256,
                         memory[1] \div 256, memory[1] % 256, memory[2] \div 256,
                         memory[2] % 256, threads, keyLen % 256>>)
  IN [i \in 1..keyLen |->
        LET part == (i - 1) % 3
            lane == (i - 1) \div 3
            b == IF part = 0 THEN h2 % 256
                 ELSE IF part = 1 THEN (h2 \div 256) % 256
                 ELSE (h2 \div 65536) % 256
        IN (b + 7 * lane) % 256]

\* subtle.ConstantTimeCompare: 1 when the slices have the same length and the
\* same bytes, else 0
ConstantTimeCompare(x, y) ==
  IF Len(x) # Len(y) THEN 0
  ELSE IF \A i \in 1..Len(x) : x[i] = y[i] THEN 1 ELSE 0

\* ------------------------------------------------------------------------
\* The encoded hash: generateFromPassword's Sprintf and decodeHash
\* ------------------------------------------------------------------------

\* var defaultParams = &params{...}
DefaultParams ==
  [memory |-> U32(65536), iterations |-> U32(3), parallelism |-> 2,
   saltLength |-> 16, keyLength |-> 32]

argon2id == <<"a", "r", "g", "o", "n", "2", "i", "d">>

\* encodeHash with a format that lacks the leading "$"
encodeHash_NoLeadingDollar(p, salt, hash) ==
  argon2id \o <<"$", "v", "=">> \o FormatNat(Version)
    \o <<"$", "m", "=">> \o FormatUint32(p.memory)
    \o <<",", "t", "=">> \o FormatUint32(p.iterations)
    \o <<",", "p", "=">> \o FormatNat(p.parallelism)
    \o <<"$">> \o EncodeToString(salt) \o <<"$">> \o EncodeToString(hash)

\* encodeHash with base64.StdEncoding (padded) in place of RawStdEncoding
encodeHash_Padded(p, salt, hash) ==
  <<"$">> \o argon2id \o <<"$", "v", "=">> \o FormatNat(Version)
    \o <<"$", "m", "=">> \o FormatUint32(p.memory)
    \o <<",", "t", "=">> \o FormatUint32(p.iterations)
    \o <<",", "p", "=">> \o FormatNat(p.parallelism)
    \o <<"$">> \o EncodeToString(salt) \o [i \in 1..((3 - (Len(salt) % 3)) % 3) |-> "="]
    \o <<"$">> \o EncodeToString(hash) \o [i \in 1..((3 - (Len(hash) % 3)) % 3) |-> "="]

\* encodeHash with the arguments for m and t given in the wrong order
encodeHash_TimeForMemory(p, salt, hash) ==
  <<"$">> \o argon2id \o <<"$", "v", "=">> \o FormatNat(Version)
    \o <<"$", "m", "=">> \o FormatUint32(p.iterations)
    \o <<",", "t", "=">> \o FormatUint32(p.memory)
    \o <<",", "p", "=">> \o FormatNat(p.parallelism)
    \o <<"$">> \o EncodeToString(salt) \o <<"$">> \o EncodeToString(hash)

\* fmt.Sprintf("$argon2id$v=%d$m=%d,t=%d,p=%d$%s$%s", argon2.Version, p.memory,
\* p.iterations, p.parallelism, b64Salt, b64Hash) on the base64 of salt and hash
encodeHash(p, salt, hash) ==
  <<"$">> \o argon2id \o <<"$", "v", "=">> \o FormatNat(Version)
    \o <<"$", "m", "=">> \o FormatUint32(p.memory)
    \o <<",", "t", "=">> \o FormatUint32(p.iterations)
    \o <<",", "p", "=">> \o FormatNat(p.parallelism)
    \o <<"$">> \o EncodeToString(salt) \o <<"$">> \o EncodeToString(hash)

\* the formats "v=%d" (into an int) and "m=%d,t=%d,p=%d" (into uint32, uint32, uint8)
VersionFormat == <<"v", "=", "%int">>
ParamsFormat == <<"m", "=", "%uint32", ",", "t", "=", "%uint32", ",", "p", "=", "%uint8">>

\* version == argon2.Version for a scanned int
IntEquals(val, n) == ~val.neg /\ val.mag = FormatNat(n)

\* return nil, nil, nil, err
decodeFailed(err) == [p |-> Nil, salt |-> Nil, hash |-> Nil, err |-> err]

\* lines 297-306: the key field, decoded as h
decodeKey(q, s, h) ==
  IF h.err # Nil THEN decodeFailed(Wrap("failed to decode hash", <<h.err>>))
  ELSE IF Len(h.bytes) = 0 THEN decodeFailed(<<"hash cannot be empty">>)
  ELSE [p |-> [memory |-> q.vals[1], iterations |-> q.vals[2], parallelism |-> q.vals[3],
               saltLength |-> Len(s.bytes), keyLength |-> Len(h.bytes)],
        salt |-> s.bytes, hash |-> h.bytes, err |-> NoError]

\* lines 288-295: the salt field, decoded as s
decodeSalt(vals, q, s) ==
  IF s.err # Nil THEN decodeFailed(Wrap("failed to decode salt", <<s.err>>))
  ELSE IF Len(s.bytes) = 0 THEN decodeFailed(<<"salt cannot be empty">>)
  ELSE decodeKey(q, s, DecodeString(vals[6]))

\* decodeParams with the salt decoded before the parameters are checked for zero
decodeParams_SaltFirst(vals, q) ==
  IF q.err # Nil THEN decodeFailed(Wrap("failed to parse parameters", <<q.err>>))
  ELSE IF DecodeString(vals[5]).err # Nil
    THEN decodeFailed(Wrap("failed to decode salt", <<DecodeString(vals[5]).err>>))
  ELSE IF q.vals[1] = U32Zero \/ q.vals[2] = U32Zero \/ q.vals[3] = 0
    THEN decodeFailed(<<"invalid parameters in hash">>)
  ELSE decodeSalt(vals, q, DecodeString(vals[5]))

\* decodeParams without the check for zero parameters
decodeParams_NoZeroCheck(vals, q) ==
  IF q.err # Nil THEN decodeFailed(Wrap("failed to parse parameters", <<q.err>>))
  ELSE decodeSalt(vals, q, DecodeString(vals[5]))

\* lines 277-286: the parameter block, scanned as q
decodeParams(vals, q) ==
  IF q.err # Nil THEN decodeFailed(Wrap("failed to parse parameters", <<q.err>>))
  ELSE IF q.vals[1] = U32Zero \/ q.vals[2] = U32Zero \/ q.vals[3] = 0
    THEN decodeFailed(<<"invalid parameters in hash">>)
  ELSE decodeSalt(vals, q, DecodeString(vals[5]))

\* lines 268-275: the version field, scanned as v
decodeVersion(vals, v) ==
  IF v.err # Nil THEN decodeFailed(Wrap("failed to parse version", <<v.err>>))
  ELSE IF ~IntEquals(v.vals[1], Version)
    THEN decodeFailed(<<"incompatible version of argon2">>)
  ELSE decodeParams(vals, Sscanf(vals[4], ParamsFormat))

\* lines 260-266: the fields vals (vals[k] of the code is vals[k+1] here)
decodeFields(vals) ==
  IF Len(vals) # 6
    THEN decodeFailed(<<"the encoded hash is not in the correct format">>)
  ELSE IF vals[2] # argon2id THEN decodeFailed(<<"unsupported algorithm">>)
  ELSE decodeVersion(vals, Sscanf(vals[3], VersionFormat))

decodeHash(encodedHash) == decodeFields(Split(encodedHash, "$"))

\* ------------------------------------------------------------------------
\* generateRandomBytes, generateFromPassword, hashPassword,
\* comparePasswordAndHash
\* ------------------------------------------------------------------------

\* rand.Read's outcome is the caller's input `read`: [bytes, err], with n bytes
\* when err is nil
generateRandomBytes(n, read) ==
  IF read.err # NoError
    THEN [bytes |-> <<>>, err |-> Wrap("failed to generate random bytes", read.err)]
  ELSE [bytes |-> read.bytes, err |-> NoError]

\* lines 162-172: the key of password under salt and p, encoded
generateWithSalt(password, p, salt) ==
  [encodedHash |-> encodeHash(p, salt, IDKey(StringBytes(password), salt, p.iterations,
                                             p.memory, p.parallelism, p.keyLength)),
   err |-> NoError,
   steps |-> <<"validatePassword", "generateRandomBytes", "IDKey", "Sprintf">>,
   salt |-> salt]

\* generateSalted with the error of generateRandomBytes ignored
generateSalted_IgnoresError(password, p, r) == generateWithSalt(password, p, r.bytes)

\* generateSalted with the salt taken from the password's bytes instead of
\* the bytes read
generateSalted_FromPassword(password, p, r) ==
  IF r.err # NoError
    THEN [encodedHash |-> <<>>, err |-> Wrap("failed to generate salt", r.err),
          steps |-> <<"validatePassword", "generateRandomBytes">>, salt |-> <<>>]
  ELSE generateWithSalt(password, p,
         [i \in 1..p.saltLength |->
            StringBytes(password)[((i - 1) % Len(StringBytes(password))) + 1]])

\* lines 157-160: r is what generateRandomBytes returned
generateSalted(password, p, r) ==
  IF r.err # NoError
    THEN [encodedHash |-> <<>>, err |-> Wrap("failed to generate salt", r.err),
          steps |-> <<"validatePassword", "generateRandomBytes">>, salt |-> <<>>]
  ELSE generateWithSalt(password, p, r.bytes)

\* generateValidated with the salt read before the password is validated
generateValidated_SaltFirst(password, p, read, verr) ==
  IF generateRandomBytes(p.saltLength, read).err # NoError
    THEN generateSalted(password, p, generateRandomBytes(p.saltLength, read))
  ELSE IF verr # NoError
    THEN [encodedHash |-> <<>>, err |-> verr,
          steps |-> <<"generateRandomBytes", "validatePassword">>, salt |-> <<>>]
  ELSE generateSalted(password, p, generateRandomBytes(p.saltLength, read))

\* lines 153-155: verr is what validatePassword returned
generateValidated(password, p, read, verr) ==
  IF verr # NoError
    THEN [encodedHash |-> <<>>, err |-> verr, steps |-> <<"validatePassword">>,
          salt |-> <<>>]
  ELSE generateSalted(password, p, generateRandomBytes(p.saltLength, read))

\* steps lists what the call reached, in order; salt is the salt it used
generateFromPassword(password, p, read) ==
  generateValidated(password, p, read, validatePassword(password))

\* hashPassword(password) with the value of defaultParams and rand.Read's
\* outcome made explicit
hashPassword(password, params, read) == generateFromPassword(password, params, read)

\* compareDerived with the keys compared by length only
compareDerived_LengthOnly(password, d) ==
  [match |-> Len(d.hash) = Len(IDKey(StringBytes(password), d.salt, d.p.iterations,
                                     d.p.memory, d.p.parallelism, d.p.keyLength)),
   err |-> NoError,
   steps |-> <<"validatePassword", "decodeHash", "IDKey", "ConstantTimeCompare">>,
   derivedWith |-> d.p]

\* compareDerived with the candidate key derived under the default profile
compareDerived_DefaultProfile(password, d) ==
  [match |-> ConstantTimeCompare(d.hash,
                                 IDKey(StringBytes(password), d.salt, DefaultParams.iterations,
                                       DefaultParams.memory, DefaultParams.parallelism,
                                       DefaultParams.keyLength)) = 1,
   err |-> NoError,
   steps |-> <<"validatePassword", "decodeHash", "IDKey", "ConstantTimeCompare">>,
   derivedWith |-> DefaultParams]

\* lines 229-238: d is what decodeHash returned without error
compareDerived(password, d) ==
  [match |-> ConstantTimeCompare(d.hash,
                                 IDKey(StringBytes(password), d.salt, d.p.iterations,
                                       d.p.memory, d.p.parallelism, d.p.keyLength)) = 1,
   err |-> NoError,
   steps |-> <<"validatePassword", "decodeHash", "IDKey", "ConstantTimeCompare">>,
   derivedWith |-> d.p]

\* compareDecoded with a decode failure reported as a plain mismatch
compareDecoded_NoMatchOnFailure(password, d) ==
  IF d.err # NoError
    THEN [match |-> FALSE, err |-> NoError,
          steps |-> <<"validatePassword", "decodeHash">>, derivedWith |-> Nil]
  ELSE compareDerived(password, d)

\* lines 224-227: d is what decodeHash returned
compareDecoded(password, d) ==
  IF d.err # NoError
    THEN [match |-> FALSE, err |-> Wrap("failed to decode hash", d.err),
          steps |-> <<"validatePassword", "decodeHash">>, derivedWith |-> Nil]
  ELSE compareDerived(password, d)

\* lines 219-221: verr is what validatePassword returned
compareValidated(password, encodedHash, verr) ==
  IF verr # NoError
    THEN [match |-> FALSE, err |-> verr, steps |-> <<"validatePassword">>,
          derivedWith |-> Nil]
  ELSE compareDecoded(password, decodeHash(encodedHash))

\* comparePasswordAndHash with the stored string decoded before the candidate is
\* validated
comparePasswordAndHash_DecodeFirst(password, encodedHash) ==
  IF decodeHash(encodedHash).err # NoError
    THEN [match |-> FALSE, err |-> Wrap("failed to decode hash", decodeHash(encodedHash).err),
          steps |-> <<"decodeHash">>, derivedWith |-> Nil]
  ELSE IF validatePassword(password) # NoError
    THEN [match |-> FALSE, err |-> validatePassword(password),
          steps |-> <<"decodeHash", "validatePassword">>, derivedWith |-> Nil]
  ELSE compareDerived(password, decodeHash(encodedHash))

\* steps lists what the call reached, in order; derivedWith is the profile
\* IDKey was called with
comparePasswordAndHash(password, encodedHash) ==
  compareValidated(password, encodedHash, validatePassword(password))

\* ------------------------------------------------------------------------
\* Inputs
\* ------------------------------------------------------------------------

\* strings.Repeat of one element
Repeat(x, n) == [i \in 1..n |-> x]

RECURSIVE Join(_, _)
\* strings.Join(fields, sep) for a one-character sep
Join(fields, sep) ==
  IF fields = <<>> THEN <<>>
  ELSE IF Len(fields) = 1 THEN fields[1]
  ELSE fields[1] \o <<sep>> \o Join(Tail(fields), sep)

\* sequences over S of length 0..n
SeqsUpTo(S, n) == UNION {[1..k -> S] : k \in 0..n}

\* "TestP@1s" and the Cyrillic "Пароль1!": policy-valid
ValidPasswords == { <<84,101,115,116,80,64,49,115>>, <<1055,1072,1088,1086,1083,1100,49,33>> }

\* "Te1!" (too short) and "testp@ssw0rd" (no uppercase letter): rejected by
\* the policy
WeakPasswords == { <<84,101,49,33>>, <<116,101,115,116,112,64,115,115,119,48,114,100>> }

Passwords == ValidPasswords \cup WeakPasswords

\* the bytes crypto/rand may hand out: RandomRange different strings per length
RandomRange == 2
RandomBytes(k, n) == [i \in 1..n |-> (k * 53 + i * 17) % 256]

\* the outcomes of one rand.Read into a buffer of n bytes
RandReads(n) ==
  {[err |-> NoError, bytes |-> RandomBytes(k, n)] : k \in 1..RandomRange}
    \cup {[err |-> <<"entropy source unavailable">>, bytes |-> <<>>]}

\* at most MaxReads reads of the random source in one behaviour
MaxReads == 2

\* a cost profile other than the default one
LegacyParams ==
  [memory |-> U32(4096), iterations |-> U32(1), parallelism |-> 1,
   saltLength |-> 8, keyLength |-> 16]

\* the encoded hash of a password under profile p and a given salt, made
\* without the policy check: lines 162-170 of generateFromPassword alone
legacyHash(password, p, salt) ==
  encodeHash(p, salt, IDKey(StringBytes(password), salt, p.iterations, p.memory,
                            p.parallelism, p.keyLength))

\* well-formed stored strings that hashPassword did not make: the hashes of the
\* weak passwords (stored before the policy applied) and the hash of a valid
\* password under another profile
LegacyHashes ==
  {legacyHash(pw, DefaultParams, RandomBytes(1, DefaultParams.saltLength)) :
     pw \in WeakPasswords}
    \cup {legacyHash(<<84,101,115,116,80,64,49,115>>, LegacyParams,
                     RandomBytes(2, LegacyParams.saltLength))}

\* stored strings decodeHash rejects: "", "invalid-hash", an unsupported
\* algorithm, a zero parameter, an empty key
MalformedHashes ==
  { <<>>,
    <<"i","n","v","a","l","i","d","-","h","a","s","h">>,
    <<"$","a","r","g","o","n","2","i","$","v","=","1","9","$","m","=","6","5","5","3","6",",","t","=","3",",","p","=","2","$","c","2","F","s","d","A","$","a","G","F","z","a","A">>,
    <<"$","a","r","g","o","n","2","i","d","$","v","=","1","9","$","m","=","0",",","t","=","3",",","p","=","2","$","c","2","F","s","d","A","$","a","G","F","z","a","A">>,
    <<"$","a","r","g","o","n","2","i","d","$","v","=","1","9","$","m","=","6","5","5","3","6",",","t","=","3",",","p","=","2","$","c","2","F","s","d","A","$">> }

\* ------------------------------------------------------------------------
\* The calls
\* ------------------------------------------------------------------------

\* The results of the calls, tabulated once over the arguments the actions
\* draw from: hashPassword reads the profile and one outcome of rand.Read,
\* comparePasswordAndHash and decodeHash read a stored string
hashPasswordOf ==
  [password \in Passwords, p \in {DefaultParams}, read \in RandReads(DefaultParams.saltLength)
     |-> hashPassword(password, p, read)]

IssuedHashes ==
  {hashPasswordOf[pw, DefaultParams, read].encodedHash :
     pw \in ValidPasswords,
     read \in {rd \in RandReads(DefaultParams.saltLength) : rd.err = NoError}}

EncodedHashes == IssuedHashes \cup LegacyHashes \cup MalformedHashes

validatePasswordOf == [password \in Passwords |-> validatePassword(password)]

comparePasswordAndHashOf ==
  [password \in Passwords, encodedHash \in EncodedHashes
     |-> comparePasswordAndHash(password, encodedHash)]

decodeHashOf == [encodedHash \in EncodedHashes |-> decodeHash(encodedHash)]

\* what a caller may pass as encodedHash: a string hashPassword returned
\* earlier, a legacy hash, or a malformed string
StoredStrings == {hashes[i].encodedHash : i \in 1..Len(hashes)}
                   \cup LegacyHashes \cup MalformedHashes

Reached(steps, name) == \E i \in 1..Len(steps) : steps[i] = name

Init ==
  /\ defaultParams = DefaultParams
  /\ randReads = <<>>
  /\ hashes = <<>>
  /\ procs = <<>>
  /\ users = <<>>
  /\ clock = 0
  /\ call = [fn |-> "none"]

ValidatePassword ==
  /\ \E password \in Passwords :
       call' = [fn |-> "validatePassword", password |-> password,
                err |-> validatePassword(password)]
  /\ UNCHANGED <<defaultParams, randReads, hashes, procs, users, clock>>

\* the state after hashPassword(password) returned r; `read` is what
\* crypto/rand returned if the call got that far
HashReturns(password, read, r) ==
  LET reads == IF Reached(r.steps, "generateRandomBytes")
               THEN Append(randReads, read) ELSE randReads
  IN /\ call' = [fn |-> "hashPassword", password |-> password,
                 encodedHash |-> r.encodedHash, err |-> r.err, steps |-> r.steps]
     /\ randReads' = reads
     /\ hashes' = IF r.err = NoError
                  THEN Append(hashes, [password |-> password, salt |-> r.salt,
                                       encodedHash |-> r.encodedHash,
                                       read |-> Len(reads)])
                  ELSE hashes

HashPassword ==
  /\ Len(randReads) < MaxReads
  /\ \E password \in Passwords, read \in RandReads(defaultParams.saltLength) :
       HashReturns(password, read, hashPasswordOf[password, defaultParams, read])
  /\ UNCHANGED <<defaultParams, procs, users, clock>>

\* profileAfterDecode for a decodeHash that scans into the shared profile
profileAfterDecode_IntoShared(shared, p) == p

\* profileAfterDecode for a decodeHash that scans m, t and p into the shared
\* profile and keeps its lengths
profileAfterDecode_CostIntoShared(shared, p) ==
  [shared EXCEPT !.memory = p.memory, !.iterations = p.iterations,
                 !.parallelism = p.parallelism]

\* the shared profile after decodeHash returned the profile p: decodeHash
\* scans into p = &params{}, a value of its own (line 277), and hands out a
\* pointer to that, so *defaultParams is as it was
profileAfterDecode(shared, p) == shared

CompareReturns(password, encodedHash, r) ==
  /\ call' = [fn |-> "comparePasswordAndHash", password |-> password,
              encodedHash |-> encodedHash, match |-> r.match, err |-> r.err,
              steps |-> r.steps, derivedWith |-> r.derivedWith]
  /\ defaultParams' = IF Reached(r.steps, "IDKey")
                      THEN profileAfterDecode(defaultParams, r.derivedWith)
                      ELSE defaultParams

ComparePasswordAndHash ==
  /\ \E password \in Passwords, encodedHash \in StoredStrings :
       CompareReturns(password, encodedHash, comparePasswordAndHashOf[password, encodedHash])
  /\ UNCHANGED <<randReads, hashes, procs, users, clock>>

DecodeReturns(encodedHash, r) ==
  /\ call' = [fn |-> "decodeHash", encodedHash |-> encodedHash, err |-> r.err,
              p |-> r.p, salt |-> r.salt, hash |-> r.hash]
  /\ defaultParams' = IF r.err = NoError THEN profileAfterDecode(defaultParams, r.p)
                      ELSE defaultParams

DecodeHash ==
  /\ \E encodedHash \in StoredStrings : DecodeReturns(encodedHash, decodeHashOf[encodedHash])
  /\ UNCHANGED <<randReads, hashes, procs, users, clock>>

Next == ValidatePassword \/ HashPassword \/ ComparePasswordAndHash \/ DecodeHash

Spec == Init /\ [][Next]_vars

\* ------------------------------------------------------------------------
\* Properties of the calls under Spec
\* ------------------------------------------------------------------------

\* C1: comparePasswordAndHash validates the candidate first: for a candidate
\* that fails validatePassword the result is that policy error with
\* match = false, whatever the stored string is, and neither decodeHash nor
\* IDKey is reached.
C1_PolicyCheckedFirst ==
  (call.fn = "comparePasswordAndHash" /\ validatePassword(call.password) # NoError)
    => /\ call.err = validatePassword(call.password)
       /\ call.match = FALSE
       /\ call.steps = <<"validatePassword">>
       /\ ~Reached(call.steps, "decodeHash")
       /\ ~Reached(call.steps, "IDKey")

\* the candidate "testp@ssw0rd" is rejected with ErrPasswordNoUpper against the
\* well-formed hash derived from that very password
C1_Witness ==
  /\ call.fn = "comparePasswordAndHash"
  /\ call.password = <<116,101,115,116,112,64,115,115,119,48,114,100>>
  /\ call.encodedHash = legacyHash(call.password, DefaultParams,
                                   RandomBytes(1, DefaultParams.saltLength))
  /\ compareDecoded(call.password, decodeHash(call.encodedHash)).match
  /\ call.err = ErrPasswordNoUpper
  /\ call.match = FALSE

\* C2: for every policy-valid password and every salt the random source
\* returned, comparePasswordAndHash of the password and the string
\* hashPassword returned for it is (true, nil).
C2_OwnHashVerifies ==
  \A i \in 1..Len(hashes) :
    (call.fn = "comparePasswordAndHash" /\ call.encodedHash = hashes[i].encodedHash
       /\ call.password = hashes[i].password)
      => (call.match = TRUE /\ call.err = NoError)

\* the Cyrillic password verifies against its own hash under the second salt
C2_Witness ==
  /\ call.fn = "comparePasswordAndHash"
  /\ call.password = <<1055,1072,1088,1086,1083,1100,49,33>>
  /\ \E i \in 1..Len(hashes) :
       /\ hashes[i].encodedHash = call.encodedHash
       /\ hashes[i].password = call.password
       /\ hashes[i].salt = RandomBytes(2, DefaultParams.saltLength)
  /\ call.match = TRUE

\* C3: for policy-valid p1 # p2, comparePasswordAndHash(p2, hashPassword(p1))
\* is (false, nil): a wrong password is no error.
C3_OtherPasswordRejected ==
  \A i \in 1..Len(hashes) :
    (call.fn = "comparePasswordAndHash" /\ call.encodedHash = hashes[i].encodedHash
       /\ call.password # hashes[i].password
       /\ validatePassword(call.password) = NoError)
      => (call.match = FALSE /\ call.err = NoError)

\* a valid password compared with the hash of the other valid password
C3_Witness ==
  /\ call.fn = "comparePasswordAndHash"
  /\ call.password = <<84,101,115,116,80,64,49,115>>
  /\ \E i \in 1..Len(hashes) :
       /\ hashes[i].encodedHash = call.encodedHash
       /\ hashes[i].password = <<1055,1072,1088,1086,1083,1100,49,33>>
  /\ call.match = FALSE
  /\ call.err = NoError
  /\ Reached(call.steps, "ConstantTimeCompare")

MaxCore == 3

\* 'A', 'a', '1', '!' and the two-byte 'Я'
CoreRunes == {65, 97, 49, 33, 1071}

\* 'a', 'A', '1' and the two-byte 'я'
PadRunes == {97, 65, 49, 1103}

\* counts around 8 and 72, in runes and in bytes of two-byte runes
PadCounts == {0, 3, 4, 5, 6, 7, 8, 33, 34, 35, 36, 37, 69, 70, 71, 72, 73}

\* a short core followed by a run of one rune
PolicyInputs ==
  {core \o Repeat(r, n) : core \in SeqsUpTo(CoreRunes, MaxCore),
                          r \in PadRunes, n \in PadCounts}

InitValidate ==
  /\ defaultParams = DefaultParams
  /\ randReads = <<>>
  /\ hashes = <<>>
  /\ procs = <<>>
  /\ users = <<>>
  /\ clock = 0
  /\ call \in {[fn |-> "input", password |-> password] : password \in PolicyInputs}

ValidateInput ==
  /\ call.fn = "input"
  /\ call' = [fn |-> "validatePassword", password |-> call.password,
              err |-> validatePassword(call.password)]
  /\ UNCHANGED <<defaultParams, randReads, hashes, procs, users, clock>>

NextValidate == ValidateInput

SpecValidate == InitValidate /\ [][NextValidate]_vars

\* the rules of the policy, each on its own; the length is len(password)
TooLong(password) == ByteLen(password) > maxPasswordLength
TooShort(password) == ByteLen(password) < minPasswordLength
MissingUpper(password) == \A i \in 1..Len(password) : ~IsUpper(password[i])
MissingLower(password) == \A i \in 1..Len(password) : ~IsLower(password[i])
MissingDigit(password) == \A i \in 1..Len(password) : ~IsDigit(password[i])
MissingSpecial(password) ==
  \A i \in 1..Len(password) : ~(IsPunct(password[i]) \/ IsSymbol(password[i]))

RuleOrder == <<ErrPasswordTooLong, ErrPasswordTooShort, ErrPasswordNoUpper,
               ErrPasswordNoLower, ErrPasswordNoDigit, ErrPasswordNoSpecial>>

\* whether password violates the k-th rule of RuleOrder
Breaks(k, password) ==
  CASE k = 1 -> TooLong(password)
    [] k = 2 -> TooShort(password)
    [] k = 3 -> MissingUpper(password)
    [] k = 4 -> MissingLower(password)
    [] k = 5 -> MissingDigit(password)
    [] k = 6 -> MissingSpecial(password)

\* the rules a password violates, by the error that reports each
Violated(password) == {RuleOrder[k] : k \in {j \in 1..Len(RuleOrder) : Breaks(j, password)}}

\* C6: validatePassword returns exactly the first violated rule in the order
\* TooLong, TooShort, MissingUpper, MissingLower, MissingDigit,
\* MissingSpecial, and nil if and only if no rule is violated (the length
\* rules taken on the length validatePassword measures, len(password)).
C6_FirstViolatedRule ==
  call.fn = "validatePassword" =>
    /\ (call.err = NoError) <=> (Violated(call.password) = {})
    /\ call.err # NoError =>
         \E k \in 1..Len(RuleOrder) :
           /\ call.err = RuleOrder[k]
           /\ RuleOrder[k] \in Violated(call.password)
           /\ \A j \in 1..(k - 1) : RuleOrder[j] \notin Violated(call.password)

\* a password of legal length made of digits only violates MissingUpper,
\* MissingLower and MissingSpecial and is reported as MissingUpper
C6_Witness ==
  /\ call.fn = "validatePassword"
  /\ call.password = <<49,49,49,49,49,49,49,49>>
  /\ Violated(call.password) = {ErrPasswordNoUpper, ErrPasswordNoLower, ErrPasswordNoSpecial}
  /\ call.err = ErrPasswordNoUpper

\* C7: the length rules count characters: validatePassword returns TooShort
\* exactly when the password has fewer than 8 characters and TooLong exactly
\* when it has more than 72, also for multi-byte characters.
C7_LengthCountsCharacters ==
  call.fn = "validatePassword" =>
    /\ (call.err = ErrPasswordTooShort) <=> (Len(call.password) < minPasswordLength)
    /\ (call.err = ErrPasswordTooLong) <=> (Len(call.password) > maxPasswordLength)

\* ------------------------------------------------------------------------
\* decodeHash and comparePasswordAndHash as functions of the stored string
\* ------------------------------------------------------------------------

\* fields appended after the sixth
ExtraFields == 1

\* what precedes the first "$"
LeadFields == { <<>>, <<"x">> }

AlgorithmFields == { <<"a","r","g","o","n","2","i","d">>, <<"a","r","g","o","n","2","i">> }

VersionFields ==
  { <<"v","=","1","9">>, <<"v","=","1","8">>, <<"v","="," ","+","0","1","9","x">>, <<"v","=">>, <<"v","=","9","2","2","3","3","7","2","0","3","6","8","5","4","7","7","5","8","0","8">> }

ParamFields ==
  { <<"m","=","6","5","5","3","6",",","t","=","3",",","p","=","2">>, <<"m","=","0",",","t","=","3",",","p","=","2">>, <<"m","=","1",",","t","=","1",",","p","=","0">>,
    <<"m","=","4","2","9","4","9","6","7","2","9","5",",","t","=","1",",","p","=","2","5","5">>, <<"m","=","4","2","9","4","9","6","7","2","9","6",",","t","=","3",",","p","=","2">>, <<"m","=","6","5","5","3","6",",","t","=","3">> }

\* base64 of "salt", nothing, the padded form, a last character with stray
\* bits, and a lone newline
SaltFields == { <<"c","2","F","s","d","A">>, <<>>, <<"c","2","F","s","d","A","=","=">>, <<"c","2","F","s","d","B">>, <<"\n">> }

\* base64 of "hash", nothing, the padded form, and a lone newline
KeyFields == { <<"a","G","F","z","a","A">>, <<>>, <<"a","G","F","z","a","A","=","=">>, <<"\n">> }

\* the first n of the six fields and the extra ones, joined with "$"
FieldStrings ==
  {Join(SubSeq(<<f0, alg, ver, par, salt, key>> \o Repeat(<<"x">>, ExtraFields), 1, n), "$") :
     f0 \in LeadFields, alg \in AlgorithmFields, ver \in VersionFields,
     par \in ParamFields, salt \in SaltFields, key \in KeyFields,
     n \in 1..(6 + ExtraFields)}

StoredInputs == FieldStrings \cup LegacyHashes

InitDecode ==
  /\ defaultParams = DefaultParams
  /\ randReads = <<>>
  /\ hashes = <<>>
  /\ procs = <<>>
  /\ users = <<>>
  /\ clock = 0
  /\ call \in {[fn |-> "input", encodedHash |-> encodedHash] : encodedHash \in StoredInputs}

DecodeInput ==
  /\ call.fn = "input"
  /\ DecodeReturns(call.encodedHash, decodeHash(call.encodedHash))
  /\ UNCHANGED <<randReads, hashes, procs, users, clock>>

CompareInput ==
  /\ call.fn = "input"
  /\ \E password \in Passwords :
       CompareReturns(password, call.encodedHash,
                      comparePasswordAndHash(password, call.encodedHash))
  /\ UNCHANGED <<randReads, hashes, procs, users, clock>>

NextDecode == DecodeInput \/ CompareInput

SpecDecode == InitDecode /\ [][NextDecode]_vars


\* the failure kinds of decoding, in the order of the steps
DecodeSteps ==
  <<"BadFieldCount", "UnsupportedAlgorithm", "VersionMismatch", "BadParameterBlock",
    "ZeroParameter", "BadSaltEncoding", "EmptySalt", "BadHashEncoding", "EmptyHash">>

\* the failure kind each error of decodeHash stands for
DecodeKind(err) ==
  CASE err[1] = "the encoded hash is not in the correct format" -> "BadFieldCount"
    [] err[1] = "unsupported algorithm" -> "UnsupportedAlgorithm"
    [] err[1] = "failed to parse version" -> "VersionMismatch"
    [] err[1] = "incompatible version of argon2" -> "VersionMismatch"
    [] err[1] = "failed to parse parameters" -> "BadParameterBlock"
    [] err[1] = "invalid parameters in hash" -> "ZeroParameter"
    [] err[1] = "failed to decode salt" -> "BadSaltEncoding"
    [] err[1] = "salt cannot be empty" -> "EmptySalt"
    [] err[1] = "failed to decode hash" -> "BadHashEncoding"
    [] err[1] = "hash cannot be empty" -> "EmptyHash"

\* whether the k-th step, taken on its own, fails on the six fields vals
StepFails(k, vals) ==
  CASE k = 2 -> vals[2] # argon2id
    [] k = 3 -> \/ Sscanf(vals[3], VersionFormat).err # Nil
                \/ ~IntEquals(Sscanf(vals[3], VersionFormat).vals[1], Version)
    [] k = 4 -> Sscanf(vals[4], ParamsFormat).err # Nil
    [] k = 5 -> /\ Sscanf(vals[4], ParamsFormat).err = Nil
                /\ \/ Sscanf(vals[4], ParamsFormat).vals[1] = U32Zero
                   \/ Sscanf(vals[4], ParamsFormat).vals[2] = U32Zero
                   \/ Sscanf(vals[4], ParamsFormat).vals[3] = 0
    [] k = 6 -> DecodeString(vals[5]).err # Nil
    [] k = 7 -> DecodeString(vals[5]).err = Nil /\ DecodeString(vals[5]).bytes = <<>>
    [] k = 8 -> DecodeString(vals[6]).err # Nil
    [] k = 9 -> DecodeString(vals[6]).err = Nil /\ DecodeString(vals[6]).bytes = <<>>

\* the steps that fail on encodedHash; with a wrong field count the later
\* steps have no fields to look at
Defects(encodedHash) ==
  IF Len(Split(encodedHash, "$")) # 6 THEN {1}
  ELSE {k \in 2..Len(DecodeSteps) : StepFails(k, Split(encodedHash, "$"))}

\* C8: decodeHash succeeds if and only if every step passes, and on failure
\* reports the kind of the earliest failing step in the order field count,
\* algorithm, version, parameter syntax, zero parameter, salt base64, empty
\* salt, key base64, empty key.
C8_EarliestFailingStep ==
  call.fn = "decodeHash" =>
    /\ (call.err = NoError) <=> (Defects(call.encodedHash) = {})
    /\ Defects(call.encodedHash) # {} =>
         /\ call.err # NoError
         /\ \E k \in Defects(call.encodedHash) :
              /\ \A j \in Defects(call.encodedHash) : k <= j
              /\ DecodeKind(call.err) = DecodeSteps[k]

\* a string with a zero parameter, an empty salt and an empty key is reported
\* as ZeroParameter
C8_Witness ==
  /\ call.fn = "decodeHash"
  /\ Defects(call.encodedHash) = {5, 7, 9}
  /\ call.err = <<"invalid parameters in hash">>

\* C9: whenever decodeHash succeeds, the parameters it returns have memory,
\* iterations and parallelism > 0, saltLength = the number of decoded salt
\* bytes > 0 and keyLength = the number of decoded key bytes > 0; through
\* comparePasswordAndHash, IDKey is never called with a zero field.
C9_DecodedParamsPositive ==
  /\ (call.fn = "decodeHash" /\ call.err = NoError) =>
       /\ call.p.memory # U32Zero
       /\ call.p.iterations # U32Zero
       /\ call.p.parallelism > 0
       /\ call.p.saltLength = Len(call.salt)
       /\ call.p.saltLength > 0
       /\ call.p.keyLength = Len(call.hash)
       /\ call.p.keyLength > 0
  /\ (call.fn = "comparePasswordAndHash" /\ Reached(call.steps, "IDKey")) =>
       /\ call.derivedWith.memory # U32Zero
       /\ call.derivedWith.iterations # U32Zero
       /\ call.derivedWith.parallelism > 0
       /\ call.derivedWith.saltLength > 0
       /\ call.derivedWith.keyLength > 0

\* "m=4294967295,t=1,p=255" with the salt "salt" and the key "hash" decodes
C9_Witness ==
  /\ call.fn = "decodeHash"
  /\ call.err = NoError
  /\ call.p = [memory |-> <<65535, 65535>>, iterations |-> U32(1), parallelism |-> 255,
               saltLength |-> 4, keyLength |-> 4]
  /\ call.salt = <<115, 97, 108, 116>>
  /\ call.hash = <<104, 97, 115, 104>>

\* C10: for a policy-valid candidate and a stored string decodeHash rejects,
\* comparePasswordAndHash returns match = false with an error that wraps the
\* decode failure; it returns (false, nil) only when decodeHash succeeded and
\* the derived key differs from the stored one.
C10_DecodeFailureSurfaced ==
  call.fn = "comparePasswordAndHash" =>
    /\ (validatePassword(call.password) = NoError
          /\ decodeHash(call.encodedHash).err # NoError)
         => /\ call.match = FALSE
            /\ call.err = Wrap("failed to decode hash", decodeHash(call.encodedHash).err)
    /\ (call.match = FALSE /\ call.err = NoError)
         => /\ decodeHash(call.encodedHash).err = NoError
            /\ decodeHash(call.encodedHash).hash
                 # IDKey(StringBytes(call.password), decodeHash(call.encodedHash).salt,
                         decodeHash(call.encodedHash).p.iterations,
                         decodeHash(call.encodedHash).p.memory,
                         decodeHash(call.encodedHash).p.parallelism,
                         decodeHash(call.encodedHash).p.keyLength)

\* a valid candidate against a string whose salt is padded base64
C10_Witness ==
  /\ call.fn = "comparePasswordAndHash"
  /\ validatePassword(call.password) = NoError
  /\ Defects(call.encodedHash) = {6}
  /\ call.match = FALSE
  /\ call.err = <<"failed to decode hash", "failed to decode salt", "CorruptInputError">>


\* ------------------------------------------------------------------------
\* encodeHash followed by decodeHash
\* ------------------------------------------------------------------------

MaxBytes == 3

\* the smallest and the largest value of each parameter, and the defaults
CodecMemory == {U32(1), U32(65536), <<65535, 65535>>}
CodecIterations == {U32(1), U32(3), <<65535, 65535>>}
CodecParallelism == {1, 2, 255}

\* short byte strings of zeros and 0xFF, three bytes that encode to "++++",
\* and strings of the default salt and key lengths
CodecBytes ==
  (SeqsUpTo({0, 255}, MaxBytes) \ {<<>>})
    \cup {<<251, 239, 190>>, RandomBytes(1, DefaultParams.saltLength),
          RandomBytes(2, DefaultParams.keyLength)}

InitCodec ==
  /\ defaultParams = DefaultParams
  /\ randReads = <<>>
  /\ hashes = <<>>
  /\ procs = <<>>
  /\ users = <<>>
  /\ clock = 0
  /\ call \in {[fn |-> "input",
                p |-> [memory |-> m, iterations |-> t, parallelism |-> par,
                       saltLength |-> Len(salt), keyLength |-> Len(hash)],
                salt |-> salt, hash |-> hash] :
                 m \in CodecMemory, t \in CodecIterations, par \in CodecParallelism,
                 salt \in CodecBytes, hash \in CodecBytes}

\* the state after decodeHash(encodedHash) returned d
EncodeDecodeReturns(encodedHash, d) ==
  call' = [fn |-> "encodeDecode", p |-> call.p, salt |-> call.salt, hash |-> call.hash,
           encodedHash |-> encodedHash, decoded |-> d]

EncodeDecodeOf(encodedHash) == EncodeDecodeReturns(encodedHash, decodeHash(encodedHash))

EncodeDecodeInput ==
  /\ call.fn = "input"
  /\ EncodeDecodeOf(encodeHash(call.p, call.salt, call.hash))
  /\ UNCHANGED <<defaultParams, randReads, hashes, procs, users, clock>>

NextCodec == EncodeDecodeInput

SpecCodec == InitCodec /\ [][NextCodec]_vars

\* C4: for every parameter set with memory, iterations and parallelism > 0 and
\* every non-empty salt and key, decodeHash of the string the encoder
\* produced returns the same memory, iterations and parallelism and the same
\* salt and key bytes.
C4_RoundTrip ==
  (call.fn = "encodeDecode"
     /\ call.p.memory # U32Zero /\ call.p.iterations # U32Zero /\ call.p.parallelism > 0
     /\ call.salt # <<>> /\ call.hash # <<>>)
    => /\ call.decoded.err = NoError
       /\ call.decoded.p.memory = call.p.memory
       /\ call.decoded.p.iterations = call.p.iterations
       /\ call.decoded.p.parallelism = call.p.parallelism
       /\ call.decoded.salt = call.salt
       /\ call.decoded.hash = call.hash

\* the largest parameters with a one-byte salt and a 32-byte key
C4_Witness ==
  /\ call.fn = "encodeDecode"
  /\ call.p.memory = <<65535, 65535>>
  /\ call.p.iterations = U32(1)
  /\ call.p.parallelism = 255
  /\ call.salt = <<255>>
  /\ call.hash = RandomBytes(2, DefaultParams.keyLength)
  /\ call.decoded.err = NoError
  /\ call.decoded.p.memory = <<65535, 65535>>
  /\ call.decoded.salt = <<255>>


\* C12: hashPassword on a password that fails validatePassword returns that
\* policy error and an empty string, before any salt is requested from the
\* random source and before any key is derived: the call reads nothing from
\* crypto/rand and issues no hash.
C12_PolicyErrorBeforeSalt ==
  [][(call'.fn = "hashPassword" /\ validatePassword(call'.password) # NoError)
       => /\ call'.err = validatePassword(call'.password)
          /\ call'.encodedHash = <<>>
          /\ call'.steps = <<"validatePassword">>
          /\ randReads' = randReads
          /\ hashes' = hashes]_vars

\* hashPassword("Te1!") after an earlier call that read the random source
C12_Witness ==
  /\ call.fn = "hashPassword"
  /\ call.password = <<84,101,49,33>>
  /\ call.err = ErrPasswordTooShort
  /\ call.encodedHash = <<>>
  /\ Len(randReads) = 1
  /\ Len(hashes) = 1

\* C13: when the random source fails during salt generation, hashPassword
\* returns an error and an empty string; no key is derived and no encoded
\* hash is issued for that read.
C13_NoHashOnRandomFailure ==
  (call.fn = "hashPassword" /\ Reached(call.steps, "generateRandomBytes")
     /\ randReads[Len(randReads)].err # NoError)
    => /\ call.err = Wrap("failed to generate salt",
                          Wrap("failed to generate random bytes",
                               randReads[Len(randReads)].err))
       /\ call.encodedHash = <<>>
       /\ ~Reached(call.steps, "IDKey")
       /\ ~Reached(call.steps, "Sprintf")
       /\ \A i \in 1..Len(hashes) : hashes[i].read # Len(randReads)

\* a valid password, a failed read
C13_Witness ==
  /\ call.fn = "hashPassword"
  /\ call.password = <<84,101,115,116,80,64,49,115>>
  /\ Len(randReads) = 1
  /\ randReads[1].err = <<"entropy source unavailable">>
  /\ call.err = <<"failed to generate salt", "failed to generate random bytes",
                  "entropy source unavailable">>
  /\ call.encodedHash = <<>>
  /\ hashes = <<>>

\* C16: every string a successful hashPassword returned has exactly 6
\* "$"-separated fields: an empty first field, "argon2id", "v=19",
\* "m=65536,t=3,p=2", the unpadded base64 of a 16-byte salt and the unpadded
\* base64 of a 32-byte key; decodeHash accepts it.
C16_IssuedHashFormat ==
  \A i \in 1..Len(hashes) :
    LET fields == Split(hashes[i].encodedHash, "$")
    IN /\ Len(fields) = 6
       /\ fields[1] = <<>>
       /\ fields[2] = <<"a","r","g","o","n","2","i","d">>
       /\ fields[3] = <<"v","=","1","9">>
       /\ fields[4] = <<"m","=","6","5","5","3","6",",","t","=","3",",","p","=","2">>
       /\ Len(fields[5]) = 22
       /\ \A k \in 1..22 : fields[5][k] \in B64Chars
       /\ Len(DecodeString(fields[5]).bytes) = 16
       /\ Len(fields[6]) = 43
       /\ \A k \in 1..43 : fields[6][k] \in B64Chars
       /\ Len(DecodeString(fields[6]).bytes) = 32
       /\ decodeHash(hashes[i].encodedHash).err = NoError

\* the hash the last call returned for the Cyrillic password
C16_Witness ==
  /\ call.fn = "hashPassword"
  /\ call.err = NoError
  /\ call.password = <<1055,1072,1088,1086,1083,1100,49,33>>
  /\ Len(hashes) = 2
  /\ hashes[2].encodedHash = call.encodedHash
  /\ SubSeq(call.encodedHash, 1, 31) = <<"$","a","r","g","o","n","2","i","d","$","v","=","1","9","$","m","=","6","5","5","3","6",",","t","=","3",",","p","=","2","$">>


\* C15: the default profile (memory 65536 KiB, iterations 3, parallelism 2,
\* salt length 16, key length 32) is never written after initialisation: no
\* sequence of validatePassword, hashPassword, comparePasswordAndHash and
\* decodeHash calls changes a field of it, and decodeHash fills a value of its
\* own.
C15_DefaultParamsReadOnly ==
  /\ defaultParams.memory = <<1, 0>>
  /\ defaultParams.iterations = <<0, 3>>
  /\ defaultParams.parallelism = 2
  /\ defaultParams.saltLength = 16
  /\ defaultParams.keyLength = 32
  /\ (call.fn = "hashPassword" /\ call.err = NoError) =>
       /\ decodeHash(call.encodedHash).p.memory = defaultParams.memory
       /\ decodeHash(call.encodedHash).p.iterations = defaultParams.iterations
       /\ decodeHash(call.encodedHash).p.parallelism = defaultParams.parallelism

\* decodeHash returned another profile (m=4096,t=1,p=1) after hashes were
\* issued, and the default one is as it was
C15_Witness ==
  /\ call.fn = "decodeHash"
  /\ call.err = NoError
  /\ call.p = LegacyParams
  /\ Len(hashes) = 2
  /\ defaultParams = DefaultParams


\* ------------------------------------------------------------------------
\* Concurrent calls: goroutines run hashPassword and comparePasswordAndHash
\* with no lock; each statement that reads or writes something shared (the
\* profile behind defaultParams, crypto/rand) is a step of its own
\* ------------------------------------------------------------------------

\* the goroutines
Procs == {1, 2}

\* "TestP@1s", "Пароль1!" and the too short "Te1!"
ConcurrentPasswords == ValidPasswords \cup { <<84,101,49,33>> }

\* the outcomes of crypto/rand's Read into n bytes the goroutines draw from
ConcurrentReads(n) ==
  {[err |-> NoError, bytes |-> RandomBytes(1, n)],
   [err |-> <<"entropy source unavailable">>, bytes |-> <<>>]}

\* at most MaxHashCalls calls of hashPassword in one behaviour
MaxHashCalls == 1

\* the stored strings a goroutine may verify against: the hashes issued in
\* this behaviour, the hashes issued earlier for "TestP@1s" and "Пароль1!", a
\* hash under another profile, and "invalid-hash"
ConcurrentStored ==
  {hashes[i].encodedHash : i \in 1..Len(hashes)}
    \cup {hashPasswordOf[pw, DefaultParams,
                         [err |-> NoError,
                          bytes |-> RandomBytes(2, DefaultParams.saltLength)]].encodedHash :
            pw \in ValidPasswords}
    \cup {legacyHash(<<84,101,115,116,80,64,49,115>>, LegacyParams,
                     RandomBytes(2, LegacyParams.saltLength))}
    \cup { <<"i","n","v","a","l","i","d","-","h","a","s","h">> }

\* &params{}: the value decodeHash starts from
zeroParams ==
  [memory |-> U32Zero, iterations |-> U32Zero, parallelism |-> 0,
   saltLength |-> 0, keyLength |-> 0]

\* a goroutine's call: pc is the statement it is about to run, the other
\* fields are the arguments and the locals of the call
newCall(fn, password, encodedHash) ==
  [fn |-> fn, pc |-> "validatePassword", password |-> password,
   encodedHash |-> encodedHash, read |-> [err |-> NoError, bytes |-> <<>>],
   p |-> zeroParams, salt |-> <<>>, hash |-> <<>>, key |-> <<>>,
   match |-> FALSE, err |-> NoError]

returned(c, err) == [c EXCEPT !.pc = "done", !.err = err]

InitConcurrent ==
  /\ defaultParams = DefaultParams
  /\ randReads = <<>>
  /\ hashes = <<>>
  /\ procs = [i \in Procs |-> returned(newCall("none", <<>>, <<>>), NoError)]
  /\ users = <<>>
  /\ clock = 0
  /\ call = [fn |-> "none"]

\* the reads of crypto/rand done or still to be done by the calls in progress
readsClaimed ==
  Len(randReads)
    + Cardinality({i \in Procs : /\ procs[i].fn = "hashPassword"
                                 /\ procs[i].pc \in {"validatePassword", "generateRandomBytes"}})

GoHashPassword(i) ==
  /\ procs[i].pc = "done"
  /\ readsClaimed < MaxHashCalls
  /\ \E password \in ConcurrentPasswords :
       procs' = [procs EXCEPT ![i] = newCall("hashPassword", password, <<>>)]
  /\ UNCHANGED <<defaultParams, randReads, hashes, call, users, clock>>

GoComparePasswordAndHash(i) ==
  /\ procs[i].pc = "done"
  /\ \E password \in ConcurrentPasswords, encodedHash \in ConcurrentStored :
       procs' = [procs EXCEPT ![i] = newCall("comparePasswordAndHash", password, encodedHash)]
  /\ UNCHANGED <<defaultParams, randReads, hashes, call, users, clock>>

\* lines 153-155 and 219-221
StepValidatePassword(i) ==
  /\ procs[i].pc = "validatePassword"
  /\ procs' = [procs EXCEPT ![i] =
       IF validatePassword(procs[i].password) # NoError
         THEN returned(procs[i], validatePassword(procs[i].password))
       ELSE [procs[i] EXCEPT !.pc = IF procs[i].fn = "hashPassword" THEN "generateRandomBytes"
                              ELSE "decodeHash"]]
  /\ UNCHANGED <<defaultParams, randReads, hashes, call, users, clock>>

\* lines 157-160: p.saltLength is read from the shared profile
StepGenerateRandomBytes(i) ==
  /\ procs[i].fn = "hashPassword"
  /\ procs[i].pc = "generateRandomBytes"
  /\ \E read \in ConcurrentReads(defaultParams.saltLength) :
       /\ randReads' = Append(randReads, read)
       /\ procs' = [procs EXCEPT ![i] =
            IF generateRandomBytes(defaultParams.saltLength, read).err # NoError
              THEN returned([procs[i] EXCEPT !.read = read],
                            Wrap("failed to generate salt",
                                 generateRandomBytes(defaultParams.saltLength, read).err))
            ELSE [procs[i] EXCEPT !.read = read, !.pc = "IDKey",
                           !.salt = generateRandomBytes(defaultParams.saltLength, read).bytes]]
  /\ UNCHANGED <<defaultParams, hashes, call, users, clock>>

\* line 162: the cost parameters are read from the shared profile
StepHashIDKey(i) ==
  /\ procs[i].fn = "hashPassword"
  /\ procs[i].pc = "IDKey"
  /\ procs' = [procs EXCEPT ![i] =
       [procs[i] EXCEPT !.pc = "Sprintf",
                 !.key = IDKey(StringBytes(procs[i].password), procs[i].salt, defaultParams.iterations,
                               defaultParams.memory, defaultParams.parallelism,
                               defaultParams.keyLength)]]
  /\ UNCHANGED <<defaultParams, randReads, hashes, call, users, clock>>

\* lines 164-172: the parameters written into the string are read from the
\* shared profile
StepSprintf(i) ==
  /\ procs[i].fn = "hashPassword"
  /\ procs[i].pc = "Sprintf"
  /\ procs' = [procs EXCEPT ![i] =
       returned([procs[i] EXCEPT !.encodedHash = encodeHash(defaultParams, procs[i].salt, procs[i].key)],
                NoError)]
  /\ hashes' = Append(hashes, [password |-> procs[i].password, salt |-> procs[i].salt,
                               encodedHash |-> procs'[i].encodedHash, read |-> 0])
  /\ UNCHANGED <<defaultParams, randReads, call, users, clock>>

\* lines 224-227
StepDecodeHash(i) ==
  /\ procs[i].fn = "comparePasswordAndHash"
  /\ procs[i].pc = "decodeHash"
  /\ LET d == decodeHash(procs[i].encodedHash)
     IN IF d.err # NoError
          THEN /\ procs' = [procs EXCEPT ![i] =
                              returned(procs[i], Wrap("failed to decode hash", d.err))]
               /\ UNCHANGED defaultParams
        ELSE /\ procs' = [procs EXCEPT ![i] =
                            [procs[i] EXCEPT !.pc = "IDKey", !.p = d.p, !.salt = d.salt,
                                      !.hash = d.hash]]
             /\ defaultParams' = profileAfterDecode(defaultParams, d.p)
  /\ UNCHANGED <<randReads, hashes, call, users, clock>>

\* line 229: the parameters are the decoded ones, locals of the call
StepCompareIDKey(i) ==
  /\ procs[i].fn = "comparePasswordAndHash"
  /\ procs[i].pc = "IDKey"
  /\ procs' = [procs EXCEPT ![i] =
       [procs[i] EXCEPT !.pc = "ConstantTimeCompare",
                 !.key = IDKey(StringBytes(procs[i].password), procs[i].salt, procs[i].p.iterations,
                               procs[i].p.memory, procs[i].p.parallelism, procs[i].p.keyLength)]]
  /\ UNCHANGED <<defaultParams, randReads, hashes, call, users, clock>>

\* lines 234-238
StepConstantTimeCompare(i) ==
  /\ procs[i].fn = "comparePasswordAndHash"
  /\ procs[i].pc = "ConstantTimeCompare"
  /\ procs' = [procs EXCEPT ![i] =
       returned([procs[i] EXCEPT !.match = (ConstantTimeCompare(procs[i].hash, procs[i].key) = 1)], NoError)]
  /\ UNCHANGED <<defaultParams, randReads, hashes, call, users, clock>>

NextConcurrent ==
  \E i \in Procs :
    \/ GoHashPassword(i)
    \/ GoComparePasswordAndHash(i)
    \/ StepValidatePassword(i)
    \/ StepGenerateRandomBytes(i)
    \/ StepHashIDKey(i)
    \/ StepSprintf(i)
    \/ StepDecodeHash(i)
    \/ StepCompareIDKey(i)
    \/ StepConstantTimeCompare(i)

SpecConcurrent == InitConcurrent /\ [][NextConcurrent]_vars

\* what the call of goroutine i returned: the hash or the match, and the error
outcome(c) ==
  IF c.fn = "hashPassword" THEN [encodedHash |-> c.encodedHash, err |-> c.err]
  ELSE [match |-> c.match, err |-> c.err]

\* what the same call returns when it runs alone
alone(c) ==
  IF c.fn = "hashPassword"
    THEN IF c.read \in RandReads(DefaultParams.saltLength)
           THEN [encodedHash |-> hashPasswordOf[c.password, DefaultParams, c.read].encodedHash,
                 err |-> hashPasswordOf[c.password, DefaultParams, c.read].err]
         ELSE [encodedHash |-> hashPassword(c.password, DefaultParams, c.read).encodedHash,
               err |-> hashPassword(c.password, DefaultParams, c.read).err]
  ELSE [match |-> comparePasswordAndHashOf[c.password, c.encodedHash].match,
        err |-> comparePasswordAndHashOf[c.password, c.encodedHash].err]

\* C14: hashPassword and comparePasswordAndHash calls running concurrently, in
\* any interleaving and with no lock, return each what the call returns alone;
\* a verification against an issued hash matches when the hash was issued for
\* the call's own password and does not match when it was issued for another
\* password.
C14_ConcurrentCallsAsAlone ==
  \A i \in Procs :
    (procs[i].pc = "done" /\ procs[i].fn # "none") =>
      /\ outcome(procs[i]) = alone(procs[i])
      /\ \A pw \in ValidPasswords, rd \in RandReads(DefaultParams.saltLength) :
           (/\ procs[i].fn = "comparePasswordAndHash"
            /\ rd.err = NoError
            /\ procs[i].encodedHash = hashPasswordOf[pw, DefaultParams, rd].encodedHash
            /\ validatePassword(procs[i].password) = NoError)
             => /\ procs[i].err = NoError
                /\ procs[i].match = (procs[i].password = pw)

\* goroutine 1 verified a password against a hash issued for it and got a
\* match, while goroutine 2 is between deriving its key and writing the
\* parameters into its string
C14_Witness ==
  /\ procs[1].fn = "comparePasswordAndHash"
  /\ procs[1].pc = "done"
  /\ procs[1].match
  /\ procs[1].encodedHash \in IssuedHashes
  /\ procs[2].fn = "hashPassword"
  /\ procs[2].pc = "Sprintf"


\* ------------------------------------------------------------------------
\* UsersStorage: the table users and the statements run on it. Text columns
\* and arguments are sequences of runes; a pointer or a nullable column is
\* <<>> (nil, NULL) or <<v>>
\* ------------------------------------------------------------------------

\* strings.ToLower and strings.ToUpper on the letters the texts hold: A-Z,
\* a-z and the Cyrillic А-Я, а-я
ToLower(s) ==
  [i \in 1..Len(s) |->
     IF (65 <= s[i] /\ s[i] <= 90) \/ (1040 <= s[i] /\ s[i] <= 1071)
       THEN s[i] + 32 ELSE s[i]]

ToUpper(s) ==
  [i \in 1..Len(s) |->
     IF (97 <= s[i] /\ s[i] <= 122) \/ (1072 <= s[i] /\ s[i] <= 1103)
       THEN s[i] - 32 ELSE s[i]]

RECURSIVE Like(_, _)
\* s LIKE pattern: '%' (37) stands for any run of characters, '_' (95) for
\* any one character
Like(s, pattern) ==
  IF pattern = <<>> THEN s = <<>>
  ELSE IF Head(pattern) = 37
    THEN Like(s, Tail(pattern)) \/ (s # <<>> /\ Like(Tail(s), pattern))
  ELSE /\ s # <<>>
       /\ Head(pattern) = 95 \/ Head(pattern) = Head(s)
       /\ Like(Tail(s), Tail(pattern))

\* column ILIKE '%' + x + '%'
ILikeContains(column, x) == Like(ToLower(column), <<37>> \o ToLower(x) \o <<37>>)

\* liveByID without the condition deleted_at IS NULL
liveByID_AnyRow(table, id) == {i \in 1..Len(table) : table[i].id = id}

\* SELECT * FROM users WHERE id = @id AND deleted_at IS NULL, and the same
\* with email = @email: the positions of the rows selected
liveByID(table, id) ==
  {i \in 1..Len(table) : table[i].id = id /\ table[i].deleted_at = <<>>}

\* liveByEmail without the condition deleted_at IS NULL
liveByEmail_AnyRow(table, email) == {i \in 1..Len(table) : table[i].email = email}

liveByEmail(table, email) ==
  {i \in 1..Len(table) : table[i].email = email /\ table[i].deleted_at = <<>>}

\* pgx.CollectExactlyOneRow on the rows at the positions hit (ids and the
\* emails of live rows select at most one); op is the text utils.Wrap puts in
\* front of the error
collectExactlyOneRow(table, hit, op) ==
  IF hit = {} THEN [user |-> <<>>, err |-> Wrap(op, <<"no rows in result set">>)]
  ELSE [user |-> <<table[CHOOSE i \in hit : TRUE]>>, err |-> NoError]

\* Create with the email unique among the rows that are not deleted only
Create_UniqueAmongLive(table, params, now) ==
  LET row == [id |-> Len(table) + 1, email |-> ToLower(params.Email),
              email_verified |-> FALSE,
              verification_token |-> params.VerificationToken,
              username |-> params.Username, role |-> params.Role,
              image_url |-> params.ImageURL, password_hash |-> params.PasswordHash,
              created_at |-> now, updated_at |-> now, deleted_at |-> <<>>]
  IN IF liveByEmail(table, row.email) # {}
       THEN [users |-> table, user |-> <<>>, err |-> <<"email already exists">>]
     ELSE [users |-> Append(table, row), user |-> <<row>>, err |-> NoError]

\* INSERT INTO users ... RETURNING *: the unique constraint users_email_key is
\* on the column, whatever deleted_at is; id, email_verified, created_at,
\* updated_at and deleted_at take the column defaults
Create(table, params, now) ==
  LET row == [id |-> Len(table) + 1, email |-> ToLower(params.Email),
              email_verified |-> FALSE,
              verification_token |-> params.VerificationToken,
              username |-> params.Username, role |-> params.Role,
              image_url |-> params.ImageURL, password_hash |-> params.PasswordHash,
              created_at |-> now, updated_at |-> now, deleted_at |-> <<>>]
  IN IF \E i \in 1..Len(table) : table[i].email = row.email
       THEN [users |-> table, user |-> <<>>, err |-> <<"email already exists">>]
     ELSE [users |-> Append(table, row), user |-> <<row>>, err |-> NoError]

GetByID(table, id) == collectExactlyOneRow(table, liveByID(table, id), "get user by id")

\* GetByEmail with the email compared as given, not lower-cased
GetByEmail_ExactCase(table, email) == collectExactlyOneRow(table, liveByEmail(table, email), "get user by email")

GetByEmail(table, email) ==
  collectExactlyOneRow(table, liveByEmail(table, ToLower(email)), "get user by email")

\* COALESCE(@arg, column) for a NOT NULL column and for a nullable one
coalesce(arg, column) == IF arg # <<>> THEN arg[1] ELSE column
\* coalesceNullable that writes the argument, NULL included
coalesceNullable_Overwrite(arg, column) == arg

coalesceNullable(arg, column) == IF arg # <<>> THEN arg ELSE column

\* the trigger update_users_updated_at: BEFORE UPDATE ON users FOR EACH ROW,
\* NEW.updated_at = NOW()
update_updated_at_column(row, now) == [row EXCEPT !.updated_at = now]

\* UPDATE users SET ... WHERE id = @id AND deleted_at IS NULL RETURNING *
Update(table, params, now) ==
  LET updated ==
        [i \in 1..Len(table) |->
           IF i \in liveByID(table, params.ID)
             THEN update_updated_at_column(
                    [table[i] EXCEPT
                       !.username = coalesce(params.Username, @),
                       !.role = coalesce(params.Role, @),
                       !.image_url = coalesceNullable(params.ImageURL, @),
                       !.email_verified = coalesce(params.EmailVerified, @),
                       !.verification_token = coalesceNullable(params.VerificationToken, @),
                       !.password_hash = coalesceNullable(params.PasswordHash, @)], now)
           ELSE table[i]]
      found == collectExactlyOneRow(updated, liveByID(table, params.ID), "update user")
  IN [users |-> updated, user |-> found.user, err |-> found.err]

\* UPDATE users SET deleted_at = NOW() WHERE id = @id AND deleted_at IS NULL
Delete(table, id, now) ==
  IF liveByID(table, id) = {} THEN [users |-> table, err |-> <<"user not found">>]
  ELSE [users |-> [i \in 1..Len(table) |->
                     IF i \in liveByID(table, id)
                       THEN update_updated_at_column([table[i] EXCEPT !.deleted_at = <<now>>], now)
                     ELSE table[i]],
        err |-> NoError]


\* conditions with deleted_at IS NULL whatever IncludeDeleted is
conditions_AlwaysLive(row, p) ==
  /\ row.deleted_at = <<>>
  /\ (p.Email # <<>> /\ p.Email[1] # <<>>) => ILikeContains(row.email, p.Email[1])
  /\ (p.Username # <<>> /\ p.Username[1] # <<>>)
       => ILikeContains(row.username, p.Username[1])
  /\ (p.Role # <<>> /\ p.Role[1] # <<>>) => row.role = p.Role[1]
  /\ (p.SearchQuery # <<>> /\ p.SearchQuery[1] # <<>>)
       => \/ ILikeContains(row.email, p.SearchQuery[1])
          \/ ILikeContains(row.username, p.SearchQuery[1])

\* the conditions BuildQuery joins with AND (lines 109-132), on one row
conditions(row, p) ==
  /\ ~p.IncludeDeleted => row.deleted_at = <<>>
  /\ (p.Email # <<>> /\ p.Email[1] # <<>>) => ILikeContains(row.email, p.Email[1])
  /\ (p.Username # <<>> /\ p.Username[1] # <<>>)
       => ILikeContains(row.username, p.Username[1])
  /\ (p.Role # <<>> /\ p.Role[1] # <<>>) => row.role = p.Role[1]
  /\ (p.SearchQuery # <<>> /\ p.SearchQuery[1] # <<>>)
       => \/ ILikeContains(row.email, p.SearchQuery[1])
          \/ ILikeContains(row.username, p.SearchQuery[1])

\* the conditions of BuildCountQuery (lines 186-208), on one row
countConditions(row, p) ==
  /\ ~p.IncludeDeleted => row.deleted_at = <<>>
  /\ (p.Email # <<>> /\ p.Email[1] # <<>>) => ILikeContains(row.email, p.Email[1])
  /\ (p.Username # <<>> /\ p.Username[1] # <<>>)
       => ILikeContains(row.username, p.Username[1])
  /\ (p.Role # <<>> /\ p.Role[1] # <<>>) => row.role = p.Role[1]
  /\ (p.SearchQuery # <<>> /\ p.SearchQuery[1] # <<>>)
       => \/ ILikeContains(row.email, p.SearchQuery[1])
          \/ ILikeContains(row.username, p.SearchQuery[1])

\* SELECT COUNT(*) FROM users WHERE ...
BuildCountQuery(table, p) ==
  Cardinality({i \in 1..Len(table) : countConditions(table[i], p)})

RECURSIVE TextLess(_, _)
\* a < b for two texts, rune by rune
TextLess(a, b) ==
  IF b = <<>> THEN FALSE
  ELSE IF a = <<>> THEN TRUE
  ELSE IF Head(a) # Head(b) THEN Head(a) < Head(b)
  ELSE TextLess(Tail(a), Tail(b))

\* lines 141-158: the column of ORDER BY
safeOrderBy(p) ==
  IF p.OrderBy \in {"email", "username", "created_at", "updated_at", "role"}
    THEN p.OrderBy
  ELSE "created_at"

\* row r1 sorts strictly before row r2 under ORDER BY of p
sortsBefore(r1, r2, p) ==
  LET less(x, y) == CASE safeOrderBy(p) = "email" -> TextLess(x.email, y.email)
                      [] safeOrderBy(p) = "username" -> TextLess(x.username, y.username)
                      [] safeOrderBy(p) = "role" -> TextLess(x.role, y.role)
                      [] safeOrderBy(p) = "updated_at" -> x.updated_at < y.updated_at
                      [] OTHER -> x.created_at < y.created_at
  IN IF p.OrderBy # "" /\ ToUpper(p.Order) = <<65, 83, 67>> THEN less(r1, r2)
     ELSE less(r2, r1)

\* lines 161-169: LIMIT and OFFSET applied to the rows in their order
page(rows, p) ==
  LET first == IF p.Offset > 0 THEN p.Offset + 1 ELSE 1
      last == IF p.Limit > 0 /\ first + p.Limit - 1 < Len(rows)
              THEN first + p.Limit - 1 ELSE Len(rows)
  IN SubSeq(rows, first, last)

\* SELECT * FROM users WHERE ... ORDER BY ... LIMIT ... OFFSET ...: the
\* results the statement may give; rows equal under ORDER BY come in any order
BuildQuery(table, p) ==
  LET hit == {i \in 1..Len(table) : conditions(table[i], p)}
  IN {page([k \in 1..Cardinality(hit) |-> table[f[k]]], p) :
        f \in {g \in [1..Cardinality(hit) -> hit] :
                 /\ \A j, k \in 1..Cardinality(hit) : j # k => g[j] # g[k]
                 /\ \A j, k \in 1..Cardinality(hit) :
                      j < k => ~sortsBefore(table[g[k]], table[g[j]], p)}}

NewPaginatedResponse(data, total, limit, offset) ==
  [Data |-> data, Total |-> total, Limit |-> limit, Offset |-> offset,
   HasNextPage |-> offset + limit < total, HasPreviousPage |-> offset > 0]


\* ------------------------------------------------------------------------
\* UsersService
\* ------------------------------------------------------------------------

ErrEmailRequired == <<"email cannot be empty">>
ErrPasswordOrTokenReq == <<"either password or verification token must be provided">>
ErrWrongCredentials == <<"wrong credentials">>
ErrUserIDRequired == <<"user ID is required">>
ErrPasswordLoginNotAvailable == <<"password login not available for this user">>
ErrTokenLoginNotAvailable == <<"token login not available for this user">>

\* "guest", "customer", "employee", "admin", "owner"
RoleGuest == <<103,117,101,115,116>>
Roles == { RoleGuest, <<99,117,115,116,111,109,101,114>>, <<101,109,112,108,111,121,101,101>>, <<97,100,109,105,110>>, <<111,119,110,101,114>> }

\* the message is the Russian for "user role not allowed", followed by s
RoleFromString(s) ==
  IF ToLower(s) \notin Roles
    THEN [role |-> RoleGuest, err |-> <<"user role not allowed">>]
  ELSE [role |-> ToLower(s), err |-> NoError]

\* ToPublic that lets the verification token through, in the image URL
ToPublic_TokenShown(u) ==
  [ID |-> u.id, Email |-> u.email, EmailVerified |-> u.email_verified,
   Username |-> u.username, Role |-> u.role,
   ImageURL |-> IF u.verification_token # <<>> THEN u.verification_token[1] ELSE <<>>,
   CreatedAt |-> u.created_at]

\* the ImageURL of PublicUser is "" for a NULL image_url
ToPublic(u) ==
  [ID |-> u.id, Email |-> u.email, EmailVerified |-> u.email_verified,
   Username |-> u.username, Role |-> u.role,
   ImageURL |-> IF u.image_url # <<>> THEN u.image_url[1] ELSE <<>>,
   CreatedAt |-> u.created_at]

\* what a method of the service returns: the table after it, the public user
\* or nil, the error, and the statements it ran on the storage, in order
serviceReturn(table, user, err, storage) ==
  [users |-> table, user |-> user, err |-> err, storage |-> storage]

\* lines 92-107: passwordHash points to what hashPassword returned or is nil,
\* role is the parsed role
signUpCreate(table, email, username, passwordHash, role, imageURL, verificationToken, now) ==
  LET created == Create(table, [Email |-> email, Username |-> username,
                                PasswordHash |-> passwordHash, Role |-> role,
                                ImageURL |-> imageURL,
                                VerificationToken |-> verificationToken], now)
  IN IF created.err # NoError
       THEN serviceReturn(created.users, <<>>, Wrap("failed to create user", created.err),
                          <<"Create">>)
     ELSE serviceReturn(created.users, <<ToPublic(created.user[1])>>, NoError, <<"Create">>)

\* signUpChecked with the role looked at after the user is created as a guest
signUpChecked_CreateFirst(table, email, username, password, hashed, role, parsed, imageURL, verificationToken, now) ==
  IF password # <<>> /\ hashed.err # NoError
    THEN serviceReturn(table, <<>>, Wrap("invalid password", hashed.err), <<>>)
  ELSE IF role # <<>> /\ parsed.err # NoError
    THEN serviceReturn(signUpCreate(table, email, username,
                                    IF password # <<>> THEN <<hashed.encodedHash>> ELSE <<>>,
                                    RoleGuest, imageURL, verificationToken, now).users,
                       <<>>, Wrap("invalid role", parsed.err), <<"Create">>)
  ELSE signUpCreate(table, email, username,
                    IF password # <<>> THEN <<hashed.encodedHash>> ELSE <<>>,
                    IF role # <<>> THEN parsed.role ELSE RoleGuest,
                    imageURL, verificationToken, now)

\* lines 74-90: hashed is what hashPassword returned for the password given,
\* parsed what RoleFromString returned for the role given
signUpChecked(table, email, username, password, hashed, role, parsed, imageURL, verificationToken, now) ==
  IF password # <<>> /\ hashed.err # NoError
    THEN serviceReturn(table, <<>>, Wrap("invalid password", hashed.err), <<>>)
  ELSE IF role # <<>> /\ parsed.err # NoError
    THEN serviceReturn(table, <<>>, Wrap("invalid role", parsed.err), <<>>)
  ELSE signUpCreate(table, email, username,
                    IF password # <<>> THEN <<hashed.encodedHash>> ELSE <<>>,
                    IF role # <<>> THEN parsed.role ELSE RoleGuest,
                    imageURL, verificationToken, now)

\* password, role, imageURL and verificationToken are pointers; p is the
\* value of defaultParams and read the outcome of rand.Read if hashPassword
\* gets to it
SignUp(table, email, username, password, role, imageURL, verificationToken, p, read, now) ==
  signUpChecked(table, email, username, password,
                IF password # <<>> THEN hashPasswordOf[password[1], p, read]
                ELSE [encodedHash |-> <<>>, err |-> NoError],
                role,
                IF role # <<>> THEN RoleFromString(role[1])
                ELSE [role |-> RoleGuest, err |-> NoError],
                imageURL, verificationToken, now)

\* lines 142-156: existing is the row GetByEmail returned
signInPassword(table, existing, password) ==
  IF existing.password_hash = <<>>
    THEN serviceReturn(table, <<>>, ErrPasswordLoginNotAvailable, <<"GetByEmail">>)
  ELSE IF comparePasswordAndHashOf[password, existing.password_hash[1]].err # NoError
    THEN serviceReturn(table, <<>>,
                       Wrap("password verification failed",
                            comparePasswordAndHashOf[password, existing.password_hash[1]].err),
                       <<"GetByEmail">>)
  ELSE IF ~comparePasswordAndHashOf[password, existing.password_hash[1]].match
    THEN serviceReturn(table, <<>>, ErrWrongCredentials, <<"GetByEmail">>)
  ELSE serviceReturn(table, <<ToPublic(existing)>>, NoError, <<"GetByEmail">>)

\* lines 159-170
signInToken(table, existing, verificationToken) ==
  IF existing.verification_token = <<>>
    THEN serviceReturn(table, <<>>, ErrTokenLoginNotAvailable, <<"GetByEmail">>)
  ELSE IF verificationToken # existing.verification_token[1]
    THEN serviceReturn(table, <<>>, ErrWrongCredentials, <<"GetByEmail">>)
  ELSE serviceReturn(table, <<ToPublic(existing)>>, NoError, <<"GetByEmail">>)

\* signInFound with the token compared before the password
signInFound_TokenFirst(table, found, password, verificationToken) ==
  IF found.err # NoError
    THEN serviceReturn(table, <<>>, Wrap("user not found", found.err), <<"GetByEmail">>)
  ELSE IF verificationToken # <<>>
    THEN signInToken(table, found.user[1], verificationToken[1])
  ELSE IF password # <<>> THEN signInPassword(table, found.user[1], password[1])
  ELSE serviceReturn(table, <<>>, ErrPasswordOrTokenReq, <<"GetByEmail">>)

\* lines 134-173: found is what the storage's GetByEmail returned
signInFound(table, found, password, verificationToken) ==
  IF found.err # NoError
    THEN serviceReturn(table, <<>>, Wrap("user not found", found.err), <<"GetByEmail">>)
  ELSE IF password # <<>> THEN signInPassword(table, found.user[1], password[1])
  ELSE IF verificationToken # <<>>
    THEN signInToken(table, found.user[1], verificationToken[1])
  ELSE serviceReturn(table, <<>>, ErrPasswordOrTokenReq, <<"GetByEmail">>)

\* SignIn with the credentials looked at before the user is looked up
SignIn_CredentialsFirst(table, email, password, verificationToken) ==
  IF email = <<>> THEN serviceReturn(table, <<>>, ErrEmailRequired, <<>>)
  ELSE IF password = <<>> /\ verificationToken = <<>>
    THEN serviceReturn(table, <<>>, ErrPasswordOrTokenReq, <<>>)
  ELSE signInFound(table, GetByEmail(table, email), password, verificationToken)

SignIn(table, email, password, verificationToken) ==
  IF email = <<>> THEN serviceReturn(table, <<>>, ErrEmailRequired, <<>>)
  ELSE signInFound(table, GetByEmail(table, email), password, verificationToken)

\* serviceUpdateStored that writes no password hash
serviceUpdateStored_HashDropped(table, params, now) ==
  LET updated == Update(table, [params EXCEPT !.PasswordHash = <<>>], now)
  IN IF updated.err # NoError
       THEN serviceReturn(updated.users, <<>>, Wrap("failed to update user", updated.err),
                          <<"Update">>)
     ELSE serviceReturn(updated.users, <<ToPublic(updated.user[1])>>, NoError, <<"Update">>)

\* lines 359-365: params holds the hash in place of the new password
serviceUpdateStored(table, params, now) ==
  LET updated == Update(table, params, now)
  IN IF updated.err # NoError
       THEN serviceReturn(updated.users, <<>>, Wrap("failed to update user", updated.err),
                          <<"Update">>)
     ELSE serviceReturn(updated.users, <<ToPublic(updated.user[1])>>, NoError, <<"Update">>)

\* UsersService.Update: params.PasswordHash carries the new password; the
\* nil UUID is 0
ServiceUpdate(table, params, p, read, now) ==
  IF params.ID = 0 THEN serviceReturn(table, <<>>, ErrUserIDRequired, <<>>)
  ELSE IF params.PasswordHash = <<>> THEN serviceUpdateStored(table, params, now)
  ELSE IF validatePasswordOf[params.PasswordHash[1]] # NoError
    THEN serviceReturn(table, <<>>,
                       Wrap("invalid new password", validatePasswordOf[params.PasswordHash[1]]),
                       <<>>)
  ELSE IF hashPasswordOf[params.PasswordHash[1], p, read].err # NoError
    THEN serviceReturn(table, <<>>,
                       Wrap("failed to hash new password",
                            hashPasswordOf[params.PasswordHash[1], p, read].err), <<>>)
  ELSE serviceUpdateStored(table,
         [params EXCEPT !.PasswordHash = <<hashPasswordOf[params.PasswordHash[1], p, read].encodedHash>>],
         now)


\* ------------------------------------------------------------------------
\* The calls on the storage and on the service, one at a time
\* ------------------------------------------------------------------------

\* "a@x.io", "A@x.io", "b@x.io": emails that pass the table's chk_email
UserEmails == { <<97,64,120,46,105,111>>, <<65,64,120,46,105,111>>, <<98,64,120,46,105,111>> }

\* "tok", a verification token
SomeToken == <<116,111,107>>

\* the ids of the rows and one id no row has
UserIDs == 1..(Len(users) + 1)

\* rows written by other code than the service, as the storage's tests do:
\* the password hash is a string hashPassword did not make, "invalid-hash"
CreateInputs ==
  {[Email |-> email, Username |-> <<97,110,110>>,
    PasswordHash |-> << <<"i","n","v","a","l","i","d","-","h","a","s","h">> >>,
    Role |-> RoleGuest, ImageURL |-> <<>>, VerificationToken |-> <<>>] :
     email \in UserEmails}

\* the outcomes of rand.Read a call may meet: one for a call that does not
\* get to hashPassword's read, both kinds for one that does
readsFor(password, n) ==
  IF password # <<>> /\ validatePasswordOf[password[1]] = NoError THEN ConcurrentReads(n)
  ELSE {[err |-> NoError, bytes |-> RandomBytes(1, n)]}

\* the arguments of SignUp after email and username: "TestP@1s" with no
\* role, no password with the role "Admin" and a token, the too short "Te1!",
\* and the role "root" with and without a password
SignUpInputs ==
  { [password |-> << <<84,101,115,116,80,64,49,115>> >>, role |-> <<>>, verificationToken |-> <<>>],
    [password |-> <<>>, role |-> << <<65,100,109,105,110>> >>, verificationToken |-> <<SomeToken>>],
    [password |-> << <<84,101,49,33>> >>, role |-> <<>>, verificationToken |-> <<>>],
    [password |-> << <<84,101,115,116,80,64,49,115>> >>, role |-> << <<114,111,111,116>> >>, verificationToken |-> <<>>],
    [password |-> <<>>, role |-> << <<114,111,111,116>> >>, verificationToken |-> <<>>] }

\* UpdateUserParams with every pointer nil
updateNothing(id) ==
  [ID |-> id, Username |-> <<>>, Role |-> <<>>, ImageURL |-> <<>>,
   EmailVerified |-> <<>>, VerificationToken |-> <<>>, PasswordHash |-> <<>>]

\* UpdateUserParams for the user id: nothing supplied, each field alone and
\* all six. The values are "bob", "admin", "u", true, "tok" and "h"
UpdateInputs(id) ==
  LET all == [ID |-> id, Username |-> << <<98,111,98>> >>,
              Role |-> << <<97,100,109,105,110>> >>, ImageURL |-> << <<117>> >>,
              EmailVerified |-> <<TRUE>>, VerificationToken |-> <<SomeToken>>,
              PasswordHash |-> << <<"h">> >>]
      fields == {"Username", "Role", "ImageURL", "EmailVerified", "VerificationToken", "PasswordHash"}
  IN {updateNothing(id), all} \cup
     {[f \in DOMAIN all |-> IF f \in {"ID", only} THEN all[f] ELSE <<>>] : only \in fields}

ListInputs ==
  {[Limit |-> window[1], Offset |-> window[2], Role |-> <<>>, Email |-> email,
    Username |-> <<>>, IncludeDeleted |-> includeDeleted, OrderBy |-> order[1],
    Order |-> order[2], SearchQuery |-> <<>>] :
     window \in {<<0, 0>>, <<1, 0>>, <<1, 1>>},
     email \in {<<>>, << <<65>> >>},
     includeDeleted \in BOOLEAN,
     order \in {<<"", <<>> >>, <<"email", <<97,115,99>> >>}}

\* the successful updates of a run: the clock has moved once for each
\* Create, Delete and Update that succeeded. A run makes MaxUpdates of them
MaxUpdates == 1

updatesDone ==
  clock - Len(users) - Cardinality({i \in 1..Len(users) : users[i].deleted_at # <<>>})

InitUsers ==
  /\ defaultParams = DefaultParams
  /\ randReads = <<>>
  /\ hashes = <<>>
  /\ procs = <<>>
  /\ users = <<>>
  /\ clock = 0
  /\ call = [fn |-> "none"]

CallCreate ==
  /\ \E params \in CreateInputs :
       /\ users' = Create(users, params, clock + 1).users
       /\ clock' = IF Create(users, params, clock + 1).err = NoError THEN clock + 1
                   ELSE clock
       /\ call' = [fn |-> "UsersStorage.Create", params |-> params,
                   user |-> Create(users, params, clock + 1).user,
                   err |-> Create(users, params, clock + 1).err]
  /\ UNCHANGED <<defaultParams, randReads, hashes, procs>>

CallGetByID ==
  /\ \E id \in UserIDs :
       call' = [fn |-> "UsersStorage.GetByID", id |-> id,
                user |-> GetByID(users, id).user, err |-> GetByID(users, id).err]
  /\ UNCHANGED <<defaultParams, randReads, hashes, procs, users, clock>>

CallGetByEmail ==
  /\ \E email \in UserEmails :
       call' = [fn |-> "UsersStorage.GetByEmail", email |-> email,
                user |-> GetByEmail(users, email).user,
                err |-> GetByEmail(users, email).err]
  /\ UNCHANGED <<defaultParams, randReads, hashes, procs, users, clock>>

CallUpdate ==
  /\ \E id \in UserIDs :
       LET params == [updateNothing(id) EXCEPT !.EmailVerified = <<TRUE>>]
           updated == Update(users, params, clock + 1)
       IN /\ updated.err = NoError => updatesDone < MaxUpdates
          /\ users' = updated.users
          /\ clock' = IF updated.err = NoError THEN clock + 1 ELSE clock
          /\ call' = [fn |-> "UsersStorage.Update", params |-> params,
                      user |-> updated.user, err |-> updated.err]
  /\ UNCHANGED <<defaultParams, randReads, hashes, procs>>

CallDelete ==
  /\ \E id \in UserIDs :
       /\ users' = Delete(users, id, clock + 1).users
       /\ clock' = IF Delete(users, id, clock + 1).err = NoError THEN clock + 1 ELSE clock
       /\ call' = [fn |-> "UsersStorage.Delete", id |-> id,
                   err |-> Delete(users, id, clock + 1).err]
  /\ UNCHANGED <<defaultParams, randReads, hashes, procs>>

\* UsersStorage.List: the count, then the rows, with no other statement in
\* between
CallList ==
  /\ \E params \in ListInputs :
       \E data \in BuildQuery(users, params) :
         call' = [fn |-> "UsersStorage.List", params |-> params,
                  response |-> NewPaginatedResponse(data, BuildCountQuery(users, params),
                                                    params.Limit, params.Offset),
                  err |-> NoError]
  /\ UNCHANGED <<defaultParams, randReads, hashes, procs, users, clock>>

CallSignUp ==
  /\ \E email \in UserEmails, in \in SignUpInputs :
     \E read \in readsFor(in.password, defaultParams.saltLength) :
       LET r == SignUp(users, email, <<97,110,110>>, in.password, in.role, <<>>,
                       in.verificationToken, defaultParams, read, clock + 1)
       IN /\ users' = r.users
          /\ clock' = IF r.err = NoError THEN clock + 1 ELSE clock
          /\ call' = [fn |-> "UsersService.SignUp", email |-> email,
                      password |-> in.password, role |-> in.role,
                      user |-> r.user, err |-> r.err, storage |-> r.storage]
  /\ UNCHANGED <<defaultParams, randReads, hashes, procs>>

CallSignIn ==
  /\ \E email \in UserEmails \cup {<<>>},
        password \in {<<>>, << <<84,101,115,116,80,64,49,115>> >>, << <<1055,1072,1088,1086,1083,1100,49,33>> >>},
        verificationToken \in {<<>>, <<SomeToken>>} :
       LET r == SignIn(users, email, password, verificationToken)
       IN call' = [fn |-> "UsersService.SignIn", email |-> email,
                   password |-> password, verificationToken |-> verificationToken,
                   user |-> r.user, err |-> r.err, storage |-> r.storage]
  /\ UNCHANGED <<defaultParams, randReads, hashes, procs, users, clock>>

CallServiceUpdate ==
  /\ \E id \in {0} \cup UserIDs,
        password \in {<<>>, << <<84,101,115,116,80,64,49,115>> >>, << <<84,101,49,33>> >>} :
     \E read \in readsFor(password, defaultParams.saltLength) :
       LET params == [updateNothing(id) EXCEPT !.PasswordHash = password]
           r == ServiceUpdate(users, params, defaultParams, read, clock + 1)
       IN /\ r.err = NoError => updatesDone < MaxUpdates
          /\ users' = r.users
          /\ clock' = IF r.err = NoError THEN clock + 1 ELSE clock
          /\ call' = [fn |-> "UsersService.Update", params |-> params,
                      user |-> r.user, err |-> r.err, storage |-> r.storage]
  /\ UNCHANGED <<defaultParams, randReads, hashes, procs>>

NextStorage ==
  \/ CallCreate
  \/ CallGetByID
  \/ CallGetByEmail
  \/ CallUpdate
  \/ CallDelete
  \/ CallList

SpecStorage == InitUsers /\ [][NextStorage]_vars

NextService ==
  \/ CallCreate
  \/ CallDelete
  \/ CallSignUp
  \/ CallSignIn
  \/ CallServiceUpdate

SpecService == InitUsers /\ [][NextService]_vars


\* ------------------------------------------------------------------------
\* Properties of the storage under SpecStorage
\* ------------------------------------------------------------------------

\* C17: soft delete is permanent and hides the user. A Delete that succeeds
\* sets deleted_at on the row; from then on the row stays in the table as it
\* is, and every GetByID and Update with its id, every GetByEmail with its
\* email and every Delete with its id fails, the Delete with "user not found".
C17_SoftDeletePermanent ==
  [][/\ (call'.fn = "UsersStorage.Delete" /\ call'.err = NoError)
          => \E i \in 1..Len(users') :
               /\ users'[i].id = call'.id
               /\ users[i].deleted_at = <<>>
               /\ users'[i].deleted_at # <<>>
     /\ \A i \in 1..Len(users) :
          users[i].deleted_at # <<>> =>
            /\ Len(users') >= i
            /\ users'[i] = users[i]
            /\ (call'.fn = "UsersStorage.GetByID" /\ call'.id = users[i].id)
                 => (call'.err # NoError /\ call'.user = <<>>)
            /\ (call'.fn = "UsersStorage.GetByEmail" /\ ToLower(call'.email) = users[i].email)
                 => (call'.err # NoError /\ call'.user = <<>>)
            /\ (call'.fn = "UsersStorage.Update" /\ call'.params.ID = users[i].id)
                 => (call'.err # NoError /\ call'.user = <<>>)
            /\ (call'.fn = "UsersStorage.Delete" /\ call'.id = users[i].id)
                 => call'.err = <<"user not found">>]_vars

\* a second Delete of a deleted user whose row was updated before it was
\* deleted, while the other user is live
C17_Witness ==
  /\ call.fn = "UsersStorage.Delete"
  /\ call.err = <<"user not found">>
  /\ Len(users) = 2
  /\ call.id = 1
  /\ users[1].deleted_at # <<>>
  /\ users[1].email_verified
  /\ users[2].deleted_at = <<>>

\* row passes the filters of p other than IncludeDeleted: Email, Username,
\* Role and SearchQuery, each applied when set and not ""
matchesFilters(row, p) ==
  /\ (p.Email # <<>> /\ p.Email[1] # <<>>) => ILikeContains(row.email, p.Email[1])
  /\ (p.Username # <<>> /\ p.Username[1] # <<>>)
       => ILikeContains(row.username, p.Username[1])
  /\ (p.Role # <<>> /\ p.Role[1] # <<>>) => row.role = p.Role[1]
  /\ (p.SearchQuery # <<>> /\ p.SearchQuery[1] # <<>>)
       => \/ ILikeContains(row.email, p.SearchQuery[1])
          \/ ILikeContains(row.username, p.SearchQuery[1])

\* C20 as stated: List returns a soft-deleted user in Data exactly when
\* IncludeDeleted is true: with IncludeDeleted false no returned user has
\* deleted_at set, and with IncludeDeleted true every deleted user matching
\* the other filters is returned.
C20_DeletedListedIffIncluded ==
  call.fn = "UsersStorage.List" =>
    /\ ~call.params.IncludeDeleted
         => \A k \in 1..Len(call.response.Data) : call.response.Data[k].deleted_at = <<>>
    /\ call.params.IncludeDeleted
         => \A i \in 1..Len(users) :
              (/\ users[i].deleted_at # <<>>
               /\ matchesFilters(users[i], call.params))
                => \E k \in 1..Len(call.response.Data) :
                     call.response.Data[k] = users[i]

\* C20: with IncludeDeleted false no returned user has deleted_at set; with
\* IncludeDeleted true a deleted user matching the other filters is returned
\* when LIMIT and OFFSET cut nothing off (no offset, and no limit or a limit
\* of at least Total); otherwise it is returned only if it falls on the page
\* asked for.
C20_DeletedListedWithinPage ==
  call.fn = "UsersStorage.List" =>
    /\ ~call.params.IncludeDeleted
         => \A k \in 1..Len(call.response.Data) : call.response.Data[k].deleted_at = <<>>
    /\ (/\ call.params.IncludeDeleted
        /\ call.params.Offset <= 0
        /\ call.params.Limit <= 0 \/ call.response.Total <= call.params.Limit)
         => \A i \in 1..Len(users) :
              (/\ users[i].deleted_at # <<>>
               /\ matchesFilters(users[i], call.params))
                => \E k \in 1..Len(call.response.Data) :
                     call.response.Data[k] = users[i]
    /\ \A k \in 1..Len(call.response.Data) :
         \E i \in 1..Len(users) :
           /\ call.response.Data[k] = users[i]
           /\ matchesFilters(users[i], call.params)
    /\ call.response.Total =
         Cardinality({i \in 1..Len(users) :
                        /\ matchesFilters(users[i], call.params)
                        /\ call.params.IncludeDeleted \/ users[i].deleted_at = <<>>})

\* a List with IncludeDeleted and the filter email ILIKE '%A%' returned the
\* deleted user a@x.io and not the live user b@x.io
C20_Witness ==
  /\ call.fn = "UsersStorage.List"
  /\ call.params.IncludeDeleted
  /\ call.params.Email # <<>>
  /\ Len(users) = 2
  /\ Len(call.response.Data) = 1
  /\ call.response.Data[1].deleted_at # <<>>
  /\ \E i \in 1..2 : users[i].deleted_at = <<>>


\* ------------------------------------------------------------------------
\* Properties of the service under SpecService
\* ------------------------------------------------------------------------

\* C18: SignUp with a password the policy rejects or with a role that is not
\* one of the five roles, and Update with a new password the policy rejects,
\* return an error and a nil user, run no statement on the storage, and leave
\* the stored users as they were.
C18_RejectedBeforeStorage ==
  [][/\ (/\ call'.fn = "UsersService.SignUp"
         /\ \/ call'.password # <<>> /\ validatePassword(call'.password[1]) # NoError
            \/ call'.role # <<>> /\ ToLower(call'.role[1]) \notin Roles)
          => /\ call'.err # NoError
             /\ call'.user = <<>>
             /\ call'.storage = <<>>
             /\ users' = users
     /\ (/\ call'.fn = "UsersService.Update"
         /\ call'.params.PasswordHash # <<>>
         /\ validatePassword(call'.params.PasswordHash[1]) # NoError)
          => /\ call'.err # NoError
             /\ call'.user = <<>>
             /\ call'.storage = <<>>
             /\ users' = users]_vars

\* SignUp with the valid password "TestP@1s" and the role "root" was rejected
\* for its role while a user is stored
C18_Witness ==
  /\ call.fn = "UsersService.SignUp"
  /\ call.password # <<>>
  /\ validatePassword(call.password[1]) = NoError
  /\ call.role = << <<114,111,111,116>> >>
  /\ call.err = <<"invalid role", "user role not allowed">>
  /\ call.storage = <<>>
  /\ Len(users) = 1

\* C19: SignIn checks its inputs in a fixed order. An empty email gives
\* ErrEmailRequired and no lookup; otherwise GetByEmail runs first, so a call
\* with neither password nor token gives ErrPasswordOrTokenReq when a live
\* user has the email and "user not found" when none has.
C19_SignInOrder ==
  call.fn = "UsersService.SignIn" =>
    /\ call.email = <<>>
         => (call.err = ErrEmailRequired /\ call.user = <<>> /\ call.storage = <<>>)
    /\ call.email # <<>> => call.storage = <<"GetByEmail">>
    /\ (call.email # <<>> /\ call.password = <<>> /\ call.verificationToken = <<>>)
         => IF \E i \in 1..Len(users) :
                 users[i].email = ToLower(call.email) /\ users[i].deleted_at = <<>>
              THEN call.err = ErrPasswordOrTokenReq
            ELSE Head(call.err) = "user not found"
    /\ call.err = ErrPasswordOrTokenReq
         => /\ call.password = <<>>
            /\ call.verificationToken = <<>>
            /\ \E i \in 1..Len(users) :
                 users[i].email = ToLower(call.email) /\ users[i].deleted_at = <<>>

\* SignIn with neither password nor token for the email of a deleted user,
\* while another user is live: "user not found"
C19_Witness ==
  /\ call.fn = "UsersService.SignIn"
  /\ call.password = <<>>
  /\ call.verificationToken = <<>>
  /\ Head(call.err) = "user not found"
  /\ \E i \in 1..Len(users) :
       users[i].email = ToLower(call.email) /\ users[i].deleted_at # <<>>
  /\ \E i \in 1..Len(users) : users[i].deleted_at = <<>>

\* C11: SignIn by password gives the same outcome when the stored hash fails
\* to decode as when it decodes and the candidate does not match: for a
\* policy-valid candidate both give ErrWrongCredentials and a nil user.
C11_SameOutcomeOnDecodeFailure ==
  (/\ call.fn = "UsersService.SignIn"
   /\ call.password # <<>>
   /\ GetByEmail(users, call.email).err = NoError
   /\ GetByEmail(users, call.email).user[1].password_hash # <<>>
   /\ \/ decodeHashOf[GetByEmail(users, call.email).user[1].password_hash[1]].err # NoError
      \/ ~comparePasswordAndHashOf[call.password[1],
                                   GetByEmail(users, call.email).user[1].password_hash[1]].match)
    => (call.err = ErrWrongCredentials /\ call.user = <<>>)

\* ------------------------------------------------------------------------
\* Emails and letter case
\* ------------------------------------------------------------------------

\* a and b are the same text up to the case of their letters
sameUpToCase(a, b) == ToUpper(a) = ToUpper(b)

\* s holds no upper-case letter
noUpperCase(s) ==
  \A i \in 1..Len(s) : ~(65 <= s[i] /\ s[i] <= 90) /\ ~(1040 <= s[i] /\ s[i] <= 1071)

\* C21: email handling is case-insensitive end to end. Every stored email is
\* in lower case and Create returns the row with the lower-cased email it was
\* given; GetByEmail with any letter-case variant of the email of a live row
\* returns that row with no error, and with an email no live row has in any
\* letter case it returns an error and no user
C21_EmailCaseInsensitive ==
  /\ \A i \in 1..Len(users) : noUpperCase(users[i].email)
  /\ (call.fn = "UsersStorage.Create" /\ call.err = NoError) =>
       /\ sameUpToCase(call.user[1].email, call.params.Email)
       /\ noUpperCase(call.user[1].email)
       /\ users[call.user[1].id] = call.user[1]
  /\ call.fn = "UsersStorage.GetByEmail" =>
       LET variants == {i \in 1..Len(users) :
                          /\ users[i].deleted_at = <<>>
                          /\ sameUpToCase(users[i].email, call.email)}
       IN IF variants = {} THEN call.err # NoError /\ call.user = <<>>
          ELSE /\ call.err = NoError
               /\ \E i \in variants : call.user = <<users[i]>>

\* GetByEmail was asked for "A@x.io" and returned the live user stored as "a@x.io"
C21_Witness ==
  /\ call.fn = "UsersStorage.GetByEmail"
  /\ call.email = <<65,64,120,46,105,111>>
  /\ call.err = NoError
  /\ call.user # <<>>
  /\ call.user[1].email = <<97,64,120,46,105,111>>
  /\ call.user[1].deleted_at = <<>>

\* ------------------------------------------------------------------------
\* What UsersStorage.Update writes
\* ------------------------------------------------------------------------

\* UsersStorage.Update with any of the fields supplied
CallUpdateFields ==
  /\ \E id \in UserIDs :
     \E params \in UpdateInputs(id) :
       LET updated == Update(users, params, clock + 1)
       IN /\ updated.err = NoError => updatesDone < MaxUpdates
          /\ users' = updated.users
          /\ clock' = IF updated.err = NoError THEN clock + 1 ELSE clock
          /\ call' = [fn |-> "UsersStorage.Update", params |-> params,
                      user |-> updated.user, err |-> updated.err]
  /\ UNCHANGED <<defaultParams, randReads, hashes, procs>>

NextUpdate ==
  \/ CallCreate
  \/ CallDelete
  \/ CallUpdateFields

SpecUpdate == InitUsers /\ [][NextUpdate]_vars

\* the value a column holds after an update that was given arg for it: the
\* value supplied, or the old one when nothing was supplied
suppliedOr(arg, old) == IF arg = <<>> THEN old ELSE arg[1]
suppliedOrNullable(arg, old) == IF arg = <<>> THEN old ELSE arg

\* C22: UsersStorage.Update changes only the fields supplied as non-nil in
\* UpdateUserParams. In the row of the live user with params.ID each of
\* username, role, image_url, email_verified, verification_token and
\* password_hash takes the value supplied or keeps its old value when none
\* was supplied; id, email, created_at and deleted_at keep their values; the
\* row returned is the row stored; every other row, and every row when the id
\* names no live user, is left as it was. (updated_at, which is not a field
\* of UpdateUserParams, is set to NOW() by the trigger of the table.)
C22_UpdateChangesOnlySupplied ==
  [][call'.fn = "UsersStorage.Update" =>
       LET params == call'.params
       IN /\ Len(users') = Len(users)
          /\ \A i \in 1..Len(users) :
               IF users[i].id = params.ID /\ users[i].deleted_at = <<>>
                 THEN /\ users'[i].username = suppliedOr(params.Username, users[i].username)
                      /\ users'[i].role = suppliedOr(params.Role, users[i].role)
                      /\ users'[i].image_url = suppliedOrNullable(params.ImageURL, users[i].image_url)
                      /\ users'[i].email_verified = suppliedOr(params.EmailVerified, users[i].email_verified)
                      /\ users'[i].verification_token =
                           suppliedOrNullable(params.VerificationToken, users[i].verification_token)
                      /\ users'[i].password_hash =
                           suppliedOrNullable(params.PasswordHash, users[i].password_hash)
                      /\ users'[i].id = users[i].id
                      /\ users'[i].email = users[i].email
                      /\ users'[i].created_at = users[i].created_at
                      /\ users'[i].deleted_at = users[i].deleted_at
                      /\ users'[i].updated_at > users[i].updated_at
                      /\ call'.err = NoError
                      /\ call'.user = <<users'[i]>>
               ELSE users'[i] = users[i]
          /\ (\A i \in 1..Len(users) : users[i].id # params.ID \/ users[i].deleted_at # <<>>)
               => call'.err # NoError /\ call'.user = <<>>]_vars

\* an update that supplied only the username went through: the user is now
\* "bob" and still has the role, the password hash and the email it had
C22_Witness ==
  /\ call.fn = "UsersStorage.Update"
  /\ call.err = NoError
  /\ call.params.Username = << <<98,111,98>> >>
  /\ call.params.Role = <<>>
  /\ call.params.PasswordHash = <<>>
  /\ call.user[1].username = <<98,111,98>>
  /\ call.user[1].role = RoleGuest
  /\ call.user[1].password_hash # <<>>
  /\ call.user[1].updated_at > call.user[1].created_at

\* ------------------------------------------------------------------------
\* Verification of a hash made under another profile
\* ------------------------------------------------------------------------

\* C23: comparePasswordAndHash derives the candidate key with the memory,
\* iterations, parallelism, salt and key length decoded from the stored
\* string, never with the default profile. For the well-formed hash of
\* "TestP@1s" made under the profile m=4096, t=1, p=1 with an 8-byte salt and
\* a 16-byte key, every call with a policy-valid candidate ends without
\* error, IDKey was called with that profile and not the default one, and the
\* result is a match for "TestP@1s" and for no other password
C23_VerifiesUnderStoredProfile ==
  (/\ call.fn = "comparePasswordAndHash"
   /\ call.encodedHash = legacyHash(<<84,101,115,116,80,64,49,115>>, LegacyParams,
                                    RandomBytes(2, LegacyParams.saltLength))
   /\ validatePassword(call.password) = NoError)
    => /\ call.err = NoError
       /\ Reached(call.steps, "IDKey")
       /\ call.derivedWith.memory = U32(4096)
       /\ call.derivedWith.iterations = U32(1)
       /\ call.derivedWith.parallelism = 1
       /\ call.derivedWith.keyLength = 16
       /\ call.derivedWith.saltLength = 8
       /\ call.derivedWith # DefaultParams
       /\ call.match = (call.password = <<84,101,115,116,80,64,49,115>>)

\* "TestP@1s" was verified against its hash made under the other profile
C23_Witness ==
  /\ call.fn = "comparePasswordAndHash"
  /\ call.encodedHash = legacyHash(<<84,101,115,116,80,64,49,115>>, LegacyParams,
                                   RandomBytes(2, LegacyParams.saltLength))
  /\ call.password = <<84,101,115,116,80,64,49,115>>
  /\ call.match = TRUE
  /\ call.err = NoError
  /\ call.derivedWith.keyLength # DefaultParams.keyLength

\* the Cyrillic password was rejected against that hash, with no error
C23_WitnessRejected ==
  /\ call.fn = "comparePasswordAndHash"
  /\ call.encodedHash = legacyHash(<<84,101,115,116,80,64,49,115>>, LegacyParams,
                                   RandomBytes(2, LegacyParams.saltLength))
  /\ call.password = <<1055,1072,1088,1086,1083,1100,49,33>>
  /\ call.match = FALSE
  /\ call.err = NoError

\* ------------------------------------------------------------------------
\* The strings decodeHash accepts
\* ------------------------------------------------------------------------

\* C24: decodeHash accepts only the canonical text form: for every string
\* it accepts, encoding the decoded parameters, salt and key again gives the
\* same string.
C24_AcceptedIsCanonical ==
  (call.fn = "decodeHash" /\ call.err = NoError)
    => encodeHash(call.p, call.salt, call.hash) = call.encodedHash

\* ------------------------------------------------------------------------
\* The password hashes the service hands to the storage
\* ------------------------------------------------------------------------

\* the two methods of the service that take a password for storing
NextPasswords ==
  \/ CallSignUp
  \/ CallServiceUpdate

SpecPasswords == InitUsers /\ [][NextPasswords]_vars

\* hash is a string hashPassword issues, it decodes, and password verifies
\* against it
issuedFor(password, hash) ==
  /\ hash \in IssuedHashes
  /\ decodeHashOf[hash].err = NoError
  /\ comparePasswordAndHashOf[password, hash].err = NoError
  /\ comparePasswordAndHashOf[password, hash].match

\* C25: every password_hash that UsersService.SignUp or UsersService.Update
\* hands to the storage is an encoded hash made by hashPassword for the
\* password supplied: it decodes and that password verifies against it. With
\* no password supplied SignUp stores a NULL password_hash and Update leaves
\* the stored one as it was; a call that returns an error writes nothing
C25_StoredHashVerifiesPassword ==
  [][/\ call'.fn = "UsersService.SignUp" =>
          IF call'.err # NoError THEN users' = users
          ELSE /\ Len(users') = Len(users) + 1
               /\ SubSeq(users', 1, Len(users)) = users
               /\ IF call'.password = <<>>
                    THEN users'[Len(users')].password_hash = <<>>
                  ELSE /\ users'[Len(users')].password_hash # <<>>
                       /\ issuedFor(call'.password[1], users'[Len(users')].password_hash[1])
     /\ call'.fn = "UsersService.Update" =>
          IF call'.err # NoError THEN users' = users
          ELSE /\ Len(users') = Len(users)
               /\ \A i \in 1..Len(users) :
                    IF users[i].id = call'.params.ID /\ call'.params.PasswordHash # <<>>
                      THEN /\ users'[i].password_hash # <<>>
                           /\ issuedFor(call'.params.PasswordHash[1],
                                        users'[i].password_hash[1])
                    ELSE users'[i].password_hash = users[i].password_hash]_vars

\* Update was given the new password "TestP@1s" for a user registered without
\* a password, and the user's row now holds a hash that verifies it
C25_Witness ==
  /\ call.fn = "UsersService.Update"
  /\ call.err = NoError
  /\ call.params.PasswordHash = << <<84,101,115,116,80,64,49,115>> >>
  /\ users[call.params.ID].verification_token = <<SomeToken>>
  /\ users[call.params.ID].password_hash # <<>>
  /\ issuedFor(<<84,101,115,116,80,64,49,115>>, users[call.params.ID].password_hash[1])

\* SignUp with "TestP@1s" stored a hash that verifies it
C25_WitnessSignUp ==
  /\ call.fn = "UsersService.SignUp"
  /\ call.err = NoError
  /\ call.password = << <<84,101,115,116,80,64,49,115>> >>
  /\ users[call.user[1].ID].password_hash # <<>>
  /\ issuedFor(<<84,101,115,116,80,64,49,115>>, users[call.user[1].ID].password_hash[1])

\* ------------------------------------------------------------------------
\* SignIn with a password and a token
\* ------------------------------------------------------------------------

\* the live users that have the email, whatever the case of its letters
liveWithEmail(email) ==
  {i \in 1..Len(users) : users[i].deleted_at = <<>> /\ users[i].email = ToLower(email)}

\* C26: when SignIn is called with a password, the password alone decides,
\* whatever token comes with it and whatever token the user has: a user
\* without a password hash gives ErrPasswordLoginNotAvailable, a password
\* that does not verify against the user's hash gives ErrWrongCredentials
\* (an error in any case, also when the stored hash does not decode), and
\* only a password that verifies signs the user in. The token is compared
\* only when no password is supplied: then a user without a token gives
\* ErrTokenLoginNotAvailable, another token ErrWrongCredentials and the
\* stored token signs the user in
C26_PasswordDecidesBeforeToken ==
  (call.fn = "UsersService.SignIn" /\ call.email # <<>>) =>
    \A i \in liveWithEmail(call.email) :
      /\ call.password # <<>> =>
           IF users[i].password_hash = <<>>
             THEN call.err = ErrPasswordLoginNotAvailable /\ call.user = <<>>
           ELSE IF users[i].password_hash[1] \notin IssuedHashes
             THEN call.err # NoError /\ call.user = <<>>
           ELSE IF comparePasswordAndHashOf[call.password[1], users[i].password_hash[1]].match
             THEN call.err = NoError /\ call.user = <<ToPublic(users[i])>>
           ELSE call.err = ErrWrongCredentials /\ call.user = <<>>
      /\ (call.password = <<>> /\ call.verificationToken # <<>>) =>
           IF users[i].verification_token = <<>>
             THEN call.err = ErrTokenLoginNotAvailable /\ call.user = <<>>
           ELSE IF users[i].verification_token = call.verificationToken
             THEN call.err = NoError /\ call.user = <<ToPublic(users[i])>>
           ELSE call.err = ErrWrongCredentials /\ call.user = <<>>

\* a user has both a password hash and the token "tok"; SignIn with a password
\* that does not verify and with "tok" gave ErrWrongCredentials
C26_Witness ==
  /\ call.fn = "UsersService.SignIn"
  /\ call.password # <<>>
  /\ call.verificationToken = <<SomeToken>>
  /\ call.err = ErrWrongCredentials
  /\ \E i \in liveWithEmail(call.email) :
       /\ users[i].verification_token = <<SomeToken>>
       /\ users[i].password_hash # <<>>

\* a user has the token "tok" and no password hash; SignIn with a password and
\* with "tok" gave ErrPasswordLoginNotAvailable
C26_WitnessNoHash ==
  /\ call.fn = "UsersService.SignIn"
  /\ call.password # <<>>
  /\ call.verificationToken = <<SomeToken>>
  /\ call.err = ErrPasswordLoginNotAvailable
  /\ \E i \in liveWithEmail(call.email) :
       /\ users[i].verification_token = <<SomeToken>>
       /\ users[i].password_hash = <<>>

\* ------------------------------------------------------------------------
\* SignIn and deleted users
\* ------------------------------------------------------------------------

\* the soft-deleted users that have the email, whatever the case of its
\* letters
deletedWithEmail(email) ==
  {i \in 1..Len(users) : users[i].deleted_at # <<>> /\ sameUpToCase(users[i].email, email)}

\* C27: SignIn never succeeds for a soft-deleted user. Once Delete has
\* succeeded on a user (its row has deleted_at set), in every state reached
\* by any further calls a SignIn with that user's email returns an error and
\* no user, for every password and every token, the correct ones included
C27_NoSignInAfterDelete ==
  (call.fn = "UsersService.SignIn" /\ deletedWithEmail(call.email) # {}) =>
    /\ call.err # NoError
    /\ call.user = <<>>
    /\ Head(call.err) = "user not found"

\* SignIn with the password that verifies against the hash of a deleted user
\* was turned down
C27_Witness ==
  /\ call.fn = "UsersService.SignIn"
  /\ call.password # <<>>
  /\ call.err # NoError
  /\ \E i \in deletedWithEmail(call.email) :
       /\ users[i].password_hash # <<>>
       /\ issuedFor(call.password[1], users[i].password_hash[1])

\* SignIn with the token of a deleted user was turned down
C27_WitnessToken ==
  /\ call.fn = "UsersService.SignIn"
  /\ call.password = <<>>
  /\ call.verificationToken # <<>>
  /\ call.err # NoError
  /\ \E i \in deletedWithEmail(call.email) :
       users[i].verification_token = call.verificationToken

\* ------------------------------------------------------------------------
\* One row per email
\* ------------------------------------------------------------------------

\* no two rows of the table, deleted or not, have the same email
oneRowPerEmail(table) ==
  \A i, j \in 1..Len(table) : table[i].email = table[j].email => i = j

\* C28: at every moment at most one user row, deleted or not, exists per
\* lower-cased email. Create with an email that a row of the table has, in
\* any letter case and also when that row is soft-deleted, fails with "email
\* already exists", returns no user and leaves the table as it was; with any
\* other email it adds exactly one row
C28_OneRowPerEmail ==
  [][/\ oneRowPerEmail(users')
     /\ call'.fn = "UsersStorage.Create" =>
          IF \E i \in 1..Len(users) : sameUpToCase(users[i].email, call'.params.Email)
            THEN /\ call'.err = <<"email already exists">>
                 /\ call'.user = <<>>
                 /\ users' = users
          ELSE /\ call'.err = NoError
               /\ Len(users') = Len(users) + 1
               /\ SubSeq(users', 1, Len(users)) = users]_vars

\* Create with the email of a soft-deleted user, in another letter case, was
\* turned down with "email already exists"
C28_Witness ==
  /\ call.fn = "UsersStorage.Create"
  /\ call.err = <<"email already exists">>
  /\ \E i \in 1..Len(users) :
       /\ users[i].deleted_at # <<>>
       /\ sameUpToCase(users[i].email, call.params.Email)
       /\ users[i].email # call.params.Email

\* ------------------------------------------------------------------------
\* UsersService: the methods that read
\* ------------------------------------------------------------------------

ErrUserNotFound == <<"user not found">>
ErrInvalidOffset == <<"offset must be greater than or equal to 0">>
ErrInvalidLimit == <<"limit must be between 1 and 100">>
ErrInvalidOrderDirection == <<"order direction must be ASC or DESC">>

\* fmt.Errorf("%w: %s", target, err): the target with the text of err behind
\* it; what follows the mark "%s" is text and is not unwrapped
WrapText(target, err) == target \o <<"%s">> \o err

\* uuid.Parse of the id a caller passes as a string: <<n>> is the text of
\* the UUID n (0 is uuid.Nil) and <<-1>> a text that is no UUID
uuidParse(id) ==
  IF id[1] >= 0 THEN [id |-> id[1], err |-> NoError]
  ELSE [id |-> 0, err |-> <<"invalid UUID length">>]

\* UsersService.GetByID; the empty string is <<>>
ServiceGetByID(table, id) ==
  IF id = <<>> THEN serviceReturn(table, <<>>, ErrUserIDRequired, <<>>)
  ELSE IF uuidParse(id).err # NoError
    THEN serviceReturn(table, <<>>, ErrUserIDRequired \o <<"invalid UUID format">>, <<>>)
  ELSE IF GetByID(table, uuidParse(id).id).err # NoError
    THEN serviceReturn(table, <<>>,
                       WrapText(ErrUserNotFound, GetByID(table, uuidParse(id).id).err),
                       <<"GetByID">>)
  ELSE serviceReturn(table, <<ToPublic(GetByID(table, uuidParse(id).id).user[1])>>, NoError,
                     <<"GetByID">>)

\* UsersService.GetByEmail
ServiceGetByEmail(table, email) ==
  IF email = <<>> THEN serviceReturn(table, <<>>, ErrEmailRequired, <<>>)
  ELSE IF GetByEmail(table, email).err # NoError
    THEN serviceReturn(table, <<>>, WrapText(ErrUserNotFound, GetByEmail(table, email).err),
                       <<"GetByEmail">>)
  ELSE serviceReturn(table, <<ToPublic(GetByEmail(table, email).user[1])>>, NoError,
                     <<"GetByEmail">>)

\* lines 262-273 of UsersService.List: the storage's List on the table, one
\* statement after the other with nothing in between, and each user of Data
\* made public; the set of the responses the two statements may give
serviceListStored(table, params) ==
  {[response |-> <<NewPaginatedResponse([k \in 1..Len(data) |-> ToPublic(data[k])],
                                        BuildCountQuery(table, params),
                                        params.Limit, params.Offset)>>,
    err |-> NoError] : data \in BuildQuery(table, params)}

\* UsersService.List: the results it may give
ServiceList(table, params) ==
  IF params.Offset < 0 THEN {[response |-> <<>>, err |-> ErrInvalidOffset]}
  ELSE IF params.Limit < 1 \/ params.Limit > 100
    THEN {[response |-> <<>>, err |-> ErrInvalidLimit]}
  ELSE IF params.Order # <<>> /\ ToUpper(params.Order) \notin {<<65,83,67>>, <<68,69,83,67>>}
    THEN {[response |-> <<>>, err |-> ErrInvalidOrderDirection]}
  ELSE serviceListStored(table, [params EXCEPT !.Order = ToUpper(params.Order)])

\* the ids a caller passes: "", a text that is no UUID, uuid.Nil and the ids
\* of the rows
IDTexts == {<<>>, <<-1>>, <<0>>} \cup {<<id>> : id \in 1..Len(users)}

\* ListUsersParams of the service's callers: pages of one and two users, a
\* limit of 0 and of 101, a negative offset, and the orders "", "asc", "up"
ServiceListInputs ==
  {[Limit |-> window[1], Offset |-> window[2], Role |-> <<>>, Email |-> <<>>,
    Username |-> <<>>, IncludeDeleted |-> includeDeleted, OrderBy |-> order[1],
    Order |-> order[2], SearchQuery |-> <<>>] :
     window \in {<<1, 0>>, <<2, 1>>, <<0, 0>>, <<101, 0>>, <<1, -1>>},
     includeDeleted \in BOOLEAN,
     order \in {<<"", <<>> >>, <<"email", <<97,115,99>> >>, <<"email", <<117,112>> >>}}

CallServiceGetByID ==
  /\ \E id \in IDTexts :
       call' = [fn |-> "UsersService.GetByID", id |-> id,
                user |-> ServiceGetByID(users, id).user,
                err |-> ServiceGetByID(users, id).err,
                storage |-> ServiceGetByID(users, id).storage]
  /\ UNCHANGED <<defaultParams, randReads, hashes, procs, users, clock>>

CallServiceGetByEmail ==
  /\ \E email \in UserEmails \cup {<<>>} :
       call' = [fn |-> "UsersService.GetByEmail", email |-> email,
                user |-> ServiceGetByEmail(users, email).user,
                err |-> ServiceGetByEmail(users, email).err,
                storage |-> ServiceGetByEmail(users, email).storage]
  /\ UNCHANGED <<defaultParams, randReads, hashes, procs, users, clock>>

CallServiceList ==
  /\ \E params \in ServiceListInputs :
       \E r \in ServiceList(users, params) :
         call' = [fn |-> "UsersService.List", params |-> params,
                  response |-> r.response, err |-> r.err]
  /\ UNCHANGED <<defaultParams, randReads, hashes, procs, users, clock>>

NextPublic ==
  \/ CallSignUp
  \/ CallDelete
  \/ CallServiceGetByID
  \/ CallServiceGetByEmail
  \/ CallServiceList

SpecPublic == InitUsers /\ [][NextPublic]_vars

\* the table with the password hash and the verification token of row i
\* replaced: the user of that row and the one of the table differ in these
\* two fields only
twoUsers(table, i, hash, token) ==
  [table EXCEPT ![i] = [table[i] EXCEPT !.password_hash = hash, !.verification_token = token]]

\* a read of the random source that succeeds
someRead == [err |-> NoError, bytes |-> RandomBytes(1, DefaultParams.saltLength)]

\* what callers pass to Update for the user id: a new username, and a new
\* password with a new token
publicUpdates(id) ==
  {[updateNothing(id) EXCEPT !.Username = << <<98,111,98>> >>],
   [updateNothing(id) EXCEPT !.PasswordHash = << <<84,101,115,116,80,64,49,115>> >>,
                             !.VerificationToken = <<SomeToken>>]}

\* C29: what the methods of UsersService return is independent of the
\* user's password hash and verification token. Replace the two fields of any
\* one user by any other values: GetByID, GetByEmail, List and Update return
\* the same PublicUser, page and error as before, for every argument; and
\* SignUp returns the same PublicUser whether it is given a password and a
\* token or neither
C29_PublicUserIndependentOfSecrets ==
  /\ \A i \in 1..Len(users), hash \in {<<>>, << <<"h">> >>}, token \in {<<>>, <<SomeToken>>} :
       LET other == twoUsers(users, i, hash, token)
       IN /\ \A id \in IDTexts :
               /\ ServiceGetByID(other, id).user = ServiceGetByID(users, id).user
               /\ ServiceGetByID(other, id).err = ServiceGetByID(users, id).err
          /\ \A email \in UserEmails :
               /\ ServiceGetByEmail(other, email).user = ServiceGetByEmail(users, email).user
               /\ ServiceGetByEmail(other, email).err = ServiceGetByEmail(users, email).err
          /\ \A params \in ServiceListInputs :
               ServiceList(other, params) = ServiceList(users, params)
          /\ \A id \in 1..Len(users) : \A params \in publicUpdates(id) :
               /\ ServiceUpdate(other, params, defaultParams, someRead, clock + 1).user
                    = ServiceUpdate(users, params, defaultParams, someRead, clock + 1).user
               /\ ServiceUpdate(other, params, defaultParams, someRead, clock + 1).err
                    = ServiceUpdate(users, params, defaultParams, someRead, clock + 1).err
  /\ \A email \in UserEmails, password \in {<<>>, << <<84,101,115,116,80,64,49,115>> >>},
        token \in {<<>>, <<SomeToken>>} :
       /\ SignUp(users, email, <<97,110,110>>, password, <<>>, <<>>, token,
                 defaultParams, someRead, clock + 1).user
            = SignUp(users, email, <<97,110,110>>, <<>>, <<>>, <<>>, <<>>,
                     defaultParams, someRead, clock + 1).user
       /\ SignUp(users, email, <<97,110,110>>, password, <<>>, <<>>, token,
                 defaultParams, someRead, clock + 1).err
            = SignUp(users, email, <<97,110,110>>, <<>>, <<>>, <<>>, <<>>,
                     defaultParams, someRead, clock + 1).err

\* GetByID returned a user that has a password hash, and returns the same
\* PublicUser for the user that has no hash and the token "tok" instead
C29_Witness ==
  /\ call.fn = "UsersService.GetByID"
  /\ call.err = NoError
  /\ \E i \in 1..Len(users) :
       /\ users[i].id = call.user[1].ID
       /\ users[i].password_hash # <<>>
       /\ users[i].verification_token = <<>>
       /\ ServiceGetByID(twoUsers(users, i, <<>>, <<SomeToken>>), call.id).user = call.user

\* List returned a page with a user that has a token
C29_WitnessList ==
  /\ call.fn = "UsersService.List"
  /\ call.err = NoError
  /\ \E k \in 1..Len(call.response[1].Data) :
       users[call.response[1].Data[k].ID].verification_token # <<>>

\* ------------------------------------------------------------------------
\* UsersStorage.List while other calls write
\* ------------------------------------------------------------------------

\* List sends two statements to the pool, the count and then the select,
\* outside any transaction: each sees the table as it is when it runs, and
\* the calls of other goroutines may come between the two. procs holds the
\* List that has counted and not yet selected
ListCount ==
  /\ procs = <<>>
  /\ \E params \in ListInputs :
       procs' = <<[fn |-> "UsersStorage.List", params |-> params,
                   total |-> BuildCountQuery(users, params)]>>
  /\ UNCHANGED <<defaultParams, randReads, hashes, call, users, clock>>

ListSelect ==
  /\ procs # <<>>
  /\ \E data \in BuildQuery(users, procs[1].params) :
       call' = [fn |-> "UsersStorage.List", params |-> procs[1].params,
                response |-> NewPaginatedResponse(data, procs[1].total,
                                                  procs[1].params.Limit,
                                                  procs[1].params.Offset),
                err |-> NoError]
  /\ procs' = <<>>
  /\ UNCHANGED <<defaultParams, randReads, hashes, users, clock>>

NextListing ==
  \/ CallCreate
  \/ CallDelete
  \/ ListCount
  \/ ListSelect

SpecListing == InitUsers /\ [][NextListing]_vars

\* C30: UsersStorage.List returns a consistent page when Create and Delete
\* run concurrently: when List returns, Total is the number of users that
\* match the filters in the table from which Data was read, and HasNextPage
\* is told from that number
C30_ListPageConsistent ==
  [][(procs # <<>> /\ procs' = <<>>) =>
       LET matching == Cardinality({i \in 1..Len(users) :
                                      matchesFilters(users[i], call'.params)})
       IN /\ call'.response.Total = matching
          /\ call'.response.HasNextPage
               = (call'.params.Offset + call'.params.Limit < matching)]_vars

====
